---- MODULE Spec2Model ----
(***************************************************************************)
(* A model of the MyLaw-RAG hybrid retrieval core:                         *)
(*   - the document segmenter   (src/src/ingestion/chunker.py)             *)
(*   - the hybrid retriever     (src/src/retrieval/hybrid_retriever.py)    *)
(*   - the text cleaner         (src/src/ingestion/text_extractor.py)      *)
(*                                                                         *)
(* Text is a sequence of one-character strings.  Offsets are 0-based as in *)
(* Python: CharAt(t, i) is t[i] and Slice(t, a, b) is t[a:b].  Two symbols *)
(* stand for whole keywords: "S" is the header word "Section"/"Seksyen"    *)
(* and "P" is the header word "PART"/"BAHAGIAN"; both count as letters.    *)
(* Floats are exact rationals <<numerator, denominator>>.                  *)
(***************************************************************************)
EXTENDS Integers, Sequences, FiniteSets, TLC

VARIABLES
    \* ---- segmenter (chunker.py) ----
    text,           \* document["cleaned_text"]
    act_number,     \* document["metadata"]["act_number"]
    max_tokens,     \* argument of chunk_document
    min_tokens,     \* argument of chunk_document
    encodingLoads,  \* environment: tiktoken.get_encoding succeeds
    TOKENIZER,      \* module global TOKENIZER (None until loaded)
    seen_ids,       \* the dict seen_ids of the latest chunk_document call
    runs,           \* the lists returned by the chunk_document calls so far
    splitIn,        \* argument of the latest split_large_section call
    splitOut,       \* its return value
    \* ---- retriever (hybrid_retriever.py) ----
    retriever,      \* the HybridRetriever instance (None before construction)
    lastCall,       \* arguments and collaborator answers of the latest call
    lastResult,     \* what that call returned
    \* ---- concurrent retrieve calls on one instance ----
    threads,        \* per thread: position in retrieve, its arguments, its return value
    frames          \* the local variables of the retrieve calls in progress

chunkerVars == <<text, act_number, max_tokens, min_tokens, encodingLoads,
                 TOKENIZER, seen_ids, runs, splitIn, splitOut>>
retrieverVars == <<retriever, lastCall, lastResult>>
concurrentVars == <<threads, frames>>
vars == <<chunkerVars, retrieverVars, concurrentVars>>

-----------------------------------------------------------------------------
(* Optional[T]: None is the empty sequence, a present value x is <<x>>.    *)
None == <<>>
Some(x) == <<x>>

(* Python's str built from a sequence of characters.                       *)
RECURSIVE Join(_)
Join(cs) == IF cs = <<>> THEN "" ELSE Head(cs) \o Join(Tail(cs))

CharAt(t, i) == t[i + 1]
Slice(t, a, b) == SubSeq(t, a + 1, b)

SetMin(S) == CHOOSE x \in S : \A y \in S : x <= y
SetMax(S) == CHOOSE x \in S : \A y \in S : x >= y

-----------------------------------------------------------------------------
(* Character classes of Python's re module over the model alphabet.        *)
Digits == {"0", "1", "2", "3"}
Letters == {"a", "b", "S", "P"}
LowerLetters == {"a", "b"}
IsSpace(c) == c \in {" ", "\n"}
IsDigit(c) == c \in Digits
IsLetter(c) == c \in Letters
IsWordChar(c) == c \in Digits \cup Letters \cup {"_"}

(* The first offset j >= i that ends a maximal run of characters of a      *)
(* class, as a greedy repetition consumes it.                              *)
SkipSpaces(t, i) ==
    SetMin({j \in i..Len(t) : j = Len(t) \/ ~IsSpace(CharAt(t, j))})
SkipDigits(t, i) ==
    SetMin({j \in i..Len(t) : j = Len(t) \/ ~IsDigit(CharAt(t, j))})
SkipLetters(t, i) ==
    SetMin({j \in i..Len(t) : j = Len(t) \/ ~IsLetter(CharAt(t, j))})
(* The tail  .* $  of a header pattern: up to the end of the line.         *)
EndOfLine(t, i) ==
    SetMin({j \in i..Len(t) : j = Len(t) \/ CharAt(t, j) = "\n"})
(* The anchor ^ under re.MULTILINE.                                        *)
AtLineStart(t, i) == i = 0 \/ CharAt(t, i - 1) = "\n"

(* str.strip()                                                             *)
LStrip(t) == Slice(t, SkipSpaces(t, 0), Len(t))
RStrip(t) ==
    Slice(t, 0, SetMax({j \in 0..Len(t) : j = 0 \/ ~IsSpace(CharAt(t, j - 1))}))
Strip(t) == RStrip(LStrip(t))

-----------------------------------------------------------------------------
NoMatch == [matched |-> FALSE]

(* SECTION_PATTERN matched at offset i: at a line start, either the        *)
(* keyword, white space and a number (digits, then letters), or a number   *)
(* and a full stop; then white space and the rest of that line, the title. *)
SectionTail(t, i, numFrom, numTo, after) ==
    LET s == SkipSpaces(t, after)
        e == EndOfLine(t, s)
    IN  [matched |-> TRUE, start |-> i, end |-> e,
         number |-> Join(Slice(t, numFrom, numTo)),
         title |-> Slice(t, s, e)]

SectionMatchAt(t, i) ==
    IF i >= Len(t) \/ ~AtLineStart(t, i) THEN NoMatch
    ELSE IF CharAt(t, i) = "S"
    THEN LET j2 == SkipSpaces(t, i + 1)
             j3 == SkipDigits(t, j2)
             j4 == SkipLetters(t, j3)
         IN  IF j2 > i + 1 /\ j3 > j2
             THEN SectionTail(t, i, j2, j4, j4)
             ELSE NoMatch
    ELSE LET d3 == SkipDigits(t, i)
             d4 == SkipLetters(t, d3)
         IN  IF d3 > i /\ d4 < Len(t) /\ CharAt(t, d4) = "."
             THEN SectionTail(t, i, i, d4, d4 + 1)
             ELSE NoMatch

(* re.finditer: successive non-overlapping matches, scanning from pos.     *)
RECURSIVE SectionMatches(_, _)
SectionMatches(t, pos) ==
    LET hits == {i \in pos..Len(t) : SectionMatchAt(t, i).matched}
    IN  IF hits = {} THEN <<>>
        ELSE LET m == SectionMatchAt(t, SetMin(hits))
             IN  <<m>> \o SectionMatches(t, m.end)

(* list.sort(key=start): a stable insertion sort.                          *)
RECURSIVE InsertByStart(_, _)
InsertByStart(sorted, x) ==
    IF sorted = <<>> THEN <<x>>
    ELSE IF x.start < Head(sorted).start THEN <<x>> \o sorted
    ELSE <<Head(sorted)>> \o InsertByStart(Tail(sorted), x)

RECURSIVE SortByStart(_)
SortByStart(s) ==
    IF s = <<>> THEN <<>>
    ELSE InsertByStart(SortByStart(SubSeq(s, 1, Len(s) - 1)), s[Len(s)])

(* Variant: every section runs to the end of the document.                *)
find_sections_to_end(t) ==
    LET found == SortByStart(SectionMatches(t, 0))
    IN  [i \in 1..Len(found) |->
            [section_number |-> found[i].number,
             title |-> Join(Strip(found[i].title)),
             start |-> found[i].start,
             end |-> Len(t)]]

find_sections(t) ==
    LET found == SortByStart(SectionMatches(t, 0))
    IN  [i \in 1..Len(found) |->
            [section_number |-> found[i].number,
             title |-> Join(Strip(found[i].title)),
             start |-> found[i].start,
             end |-> IF i + 1 <= Len(found) THEN found[i + 1].start
                     ELSE Len(t)]]

-----------------------------------------------------------------------------
(* PART_PATTERN matched at offset i: at a line start the keyword, white    *)
(* space, a numeral ending at a word boundary, then white space or dashes  *)
(* and the rest of that line, the title.                                   *)
(* The alphabet has no roman-numeral letter, so the numeral is decimal.    *)
SkipSeparators(t, i) ==
    SetMin({j \in i..Len(t) : j = Len(t) \/ ~(IsSpace(CharAt(t, j)) \/ CharAt(t, j) = "-")})

PartMatchAt(t, i) ==
    IF i >= Len(t) \/ ~AtLineStart(t, i) \/ CharAt(t, i) # "P" THEN NoMatch
    ELSE LET j2 == SkipSpaces(t, i + 1)
             j3 == SkipDigits(t, j2)
             s == SkipSeparators(t, j3)
             e == EndOfLine(t, s)
         IN  IF j2 > i + 1 /\ j3 > j2 /\ (j3 = Len(t) \/ ~IsWordChar(CharAt(t, j3)))
             THEN [matched |-> TRUE, start |-> i, end |-> e,
                   number |-> Join(Slice(t, j2, j3)), title |-> Slice(t, s, e)]
             ELSE NoMatch

RECURSIVE PartMatches(_, _)
PartMatches(t, pos) ==
    LET hits == {i \in pos..Len(t) : PartMatchAt(t, i).matched}
    IN  IF hits = {} THEN <<>>
        ELSE LET m == PartMatchAt(t, SetMin(hits))
             IN  <<m>> \o PartMatches(t, m.end)

PartLabel(m) ==
    LET part_title == Strip(m.title)
    IN  IF part_title # <<>>
        THEN "Part " \o m.number \o " - " \o Join(part_title)
        ELSE "Part " \o m.number

RECURSIVE PartScan(_, _, _, _)
PartScan(ms, k, position, current_part) ==
    IF k > Len(ms) THEN current_part
    ELSE IF ms[k].start <= position
    THEN PartScan(ms, k + 1, position, Some(PartLabel(ms[k])))
    ELSE current_part

find_current_part(t, position) == PartScan(PartMatches(t, 0), 1, position, None)

-----------------------------------------------------------------------------
(* SUBSECTION_PATTERN matched at offset i: at a line start, white space,   *)
(* a parenthesised number (digits, at most one lower-case letter), and the *)
(* white space after it.                                                   *)
SubsectionMatchAt(t, i) ==
    IF i >= Len(t) \/ ~AtLineStart(t, i) THEN NoMatch
    ELSE LET s == SkipSpaces(t, i)
             d == IF s < Len(t) /\ CharAt(t, s) = "(" THEN SkipDigits(t, s + 1) ELSE s
             close == IF d < Len(t) /\ CharAt(t, d) = ")" THEN d
                      ELSE IF d + 1 < Len(t) /\ CharAt(t, d) \in LowerLetters
                              /\ CharAt(t, d + 1) = ")" THEN d + 1
                      ELSE -1
         IN  IF d > s + 1 /\ close >= 0
             THEN [matched |-> TRUE, start |-> i, end |-> SkipSpaces(t, close + 1)]
             ELSE NoMatch

RECURSIVE SubsectionMatches(_, _)
SubsectionMatches(t, pos) ==
    LET hits == {i \in pos..Len(t) : SubsectionMatchAt(t, i).matched}
    IN  IF hits = {} THEN <<>>
        ELSE LET m == SubsectionMatchAt(t, SetMin(hits))
             IN  <<m>> \o SubsectionMatches(t, m.end)

-----------------------------------------------------------------------------
(* The tokenizer.  get_tokenizer returns the cached encoding or loads it;  *)
(* None stands for the exception raised when loading fails.                *)
get_tokenizer ==
    IF TOKENIZER = None
    THEN IF encodingLoads THEN Some("cl100k_base") ELSE None
    ELSE TOKENIZER

(* len(encoding.encode(t)): one token per non-blank symbol of the model    *)
(* alphabet; white space is absorbed by the neighbouring token.            *)
EncodedLength(t) == Cardinality({i \in 1..Len(t) : ~IsSpace(t[i])})

count_tokens(t) == IF get_tokenizer = None THEN 0 ELSE EncodedLength(t)

-----------------------------------------------------------------------------
(* str.split("\n\n")                                                       *)
RECURSIVE SplitParagraphs(_)
SplitParagraphs(t) ==
    LET seps == {i \in 0..(Len(t) - 2) : CharAt(t, i) = "\n" /\ CharAt(t, i + 1) = "\n"}
    IN  IF seps = {} THEN <<t>>
        ELSE LET i == SetMin(seps)
             IN  <<Slice(t, 0, i)>> \o SplitParagraphs(Slice(t, i + 2, Len(t)))

ParagraphSeparator == <<"\n", "\n">>

RECURSIVE ParagraphLoop(_, _, _, _, _)
ParagraphLoop(paragraphs, k, chunks, current_chunk, maxT) ==
    IF k > Len(paragraphs)
    THEN IF Strip(current_chunk) # <<>> THEN Append(chunks, Strip(current_chunk))
         ELSE chunks
    ELSE LET para == paragraphs[k]
             test_chunk == IF current_chunk # <<>>
                           THEN current_chunk \o ParagraphSeparator \o para
                           ELSE para
         IN  IF count_tokens(test_chunk) > maxT /\ current_chunk # <<>>
             THEN ParagraphLoop(paragraphs, k + 1,
                                Append(chunks, Strip(current_chunk)), para, maxT)
             ELSE ParagraphLoop(paragraphs, k + 1, chunks, test_chunk, maxT)

RECURSIVE SubsectionLoop(_, _, _, _, _, _)
SubsectionLoop(t, ms, k, chunks, current_chunk, maxT) ==
    IF k > Len(ms)
    THEN IF Strip(current_chunk) # <<>> THEN Append(chunks, Strip(current_chunk))
         ELSE chunks
    ELSE LET subsection_text ==
                 IF k + 1 <= Len(ms) THEN Slice(t, ms[k].start, ms[k + 1].start)
                 ELSE Slice(t, ms[k].start, Len(t))
             test_chunk == current_chunk \o subsection_text
         IN  IF count_tokens(test_chunk) > maxT /\ Strip(current_chunk) # <<>>
             THEN SubsectionLoop(t, ms, k + 1,
                                 Append(chunks, Strip(current_chunk)),
                                 subsection_text, maxT)
             ELSE SubsectionLoop(t, ms, k + 1, chunks, test_chunk, maxT)

OrWhole(chunks, section_text) == IF chunks # <<>> THEN chunks ELSE <<section_text>>

split_large_section(section_text, maxT) ==
    IF count_tokens(section_text) <= maxT THEN <<section_text>>
    ELSE LET ms == SubsectionMatches(section_text, 0)
         IN  IF ms = <<>>
             THEN OrWhole(ParagraphLoop(SplitParagraphs(section_text), 1, <<>>, <<>>, maxT),
                          section_text)
             ELSE OrWhole(SubsectionLoop(section_text, ms, 1, <<>>,
                                         Slice(section_text, 0, ms[1].start), maxT),
                          section_text)

-----------------------------------------------------------------------------
(* chunk_document                                                          *)
ActName == "Test Act"

LegalChunk(chunk_id, part, section_number, section_title, content, start_position) ==
    [chunk_id |-> chunk_id, act_name |-> ActName, act_number |-> act_number,
     part |-> part, section_number |-> section_number,
     section_title |-> section_title, content |-> content,
     token_count |-> count_tokens(content), start_position |-> start_position]

(* Variant: the dict outlives the call.                                   *)
StaleSeenIds == seen_ids

(* seen_ids = {} at the start of every call.                               *)
NewSeenIds == <<>>

(* Variant: the fallback chunk holds the stripped text.                   *)
FullChunkStripped(t) ==
    LegalChunk("act_" \o ToString(act_number) \o "_full", None, None, None, Strip(t), 0)

FullChunk(t) == LegalChunk("act_" \o ToString(act_number) \o "_full", None, None, None, t, 0)

(* Variant: the preamble chunk is emitted whatever its token count.       *)
PreambleOfAnySize(t, sections, minT) ==
    LET preamble == Strip(Slice(t, 0, sections[1].start))
    IN  IF sections[1].start > 0 /\ preamble # <<>>
        THEN <<LegalChunk("act_" \o ToString(act_number) \o "_preamble",
                          find_current_part(t, 0), Some("Preamble"),
                          Some("Preliminary Provisions"), preamble, 0)>>
        ELSE <<>>

PreambleChunks(t, sections, minT) ==
    LET preamble == Strip(Slice(t, 0, sections[1].start))
    IN  IF sections[1].start > 0 /\ preamble # <<>> /\ count_tokens(preamble) >= minT
        THEN <<LegalChunk("act_" \o ToString(act_number) \o "_preamble",
                          find_current_part(t, 0), Some("Preamble"),
                          Some("Preliminary Provisions"), preamble, 0)>>
        ELSE <<>>

(* Variant: the merge keeps the predecessor's token count.                 *)
MergeWithStaleCount(chunks, chunk_text) ==
    [chunks EXCEPT ![Len(chunks)].content = @ \o ParagraphSeparator \o chunk_text]

(* Variant: a small piece is dropped instead of merged.                   *)
DropSmallPiece(chunks, chunk_text) == chunks

MergeIntoPrevious(chunks, chunk_text) ==
    LET prev == chunks[Len(chunks)]
    IN  [chunks EXCEPT ![Len(chunks)] =
            LegalChunk(prev.chunk_id, prev.part, prev.section_number,
                       prev.section_title,
                       prev.content \o ParagraphSeparator \o chunk_text,
                       prev.start_position)]

BaseId(section, nPieces, i) ==
    LET base_id == "act_" \o ToString(act_number) \o "_s" \o section.section_number
    IN  IF nPieces > 1 THEN base_id \o "_" \o ToString(i) ELSE base_id

(* Variant: a repeated base id is issued again as it is.                  *)
RepeatedId(base_id, seen) == base_id

DedupId(base_id, seen) ==
    IF base_id \in DOMAIN seen
    THEN base_id \o "_dup" \o ToString(seen[base_id] + 1)
    ELSE base_id

(* Variant: a repeated base id leaves its counter as it is.               *)
CountOnce(base_id, seen) ==
    IF base_id \in DOMAIN seen THEN seen ELSE (base_id :> 0) @@ seen

Count(base_id, seen) ==
    IF base_id \in DOMAIN seen
    THEN [seen EXCEPT ![base_id] = @ + 1]
    ELSE (base_id :> 0) @@ seen

(* The inner loop over the pieces of one section; i is 1-based.            *)
RECURSIVE PieceLoop(_, _, _, _, _, _, _)
PieceLoop(section, current_part, section_chunks, i, chunks, seen, minT) ==
    IF i > Len(section_chunks) THEN [chunks |-> chunks, seen |-> seen]
    ELSE LET chunk_text == section_chunks[i]
         IN  IF count_tokens(chunk_text) < minT /\ chunks # <<>>
             THEN PieceLoop(section, current_part, section_chunks, i + 1,
                            MergeIntoPrevious(chunks, chunk_text), seen, minT)
             ELSE LET base_id == BaseId(section, Len(section_chunks), i)
                  IN  PieceLoop(section, current_part, section_chunks, i + 1,
                                Append(chunks,
                                       LegalChunk(DedupId(base_id, seen), current_part,
                                                  Some(section.section_number),
                                                  Some(section.title), chunk_text,
                                                  section.start)),
                                Count(base_id, seen), minT)

SectionText(t, section) == Strip(Slice(t, section.start, section.end))

(* The outer loop over the sections.                                       *)
RECURSIVE SectionLoop(_, _, _, _, _, _, _)
SectionLoop(t, sections, k, chunks, seen, maxT, minT) ==
    IF k > Len(sections) THEN [chunks |-> chunks, seen |-> seen]
    ELSE LET after == PieceLoop(sections[k], find_current_part(t, sections[k].start),
                                split_large_section(SectionText(t, sections[k]), maxT),
                                1, chunks, seen, minT)
         IN  SectionLoop(t, sections, k + 1, after.chunks, after.seen, maxT, minT)

chunk_document(t, maxT, minT) ==
    LET sections == find_sections(t)
    IN  IF sections = <<>>
        THEN [chunks |-> <<FullChunk(t)>>, seen |-> seen_ids]
        ELSE SectionLoop(t, sections, 1, PreambleChunks(t, sections, minT),
                         NewSeenIds, maxT, minT)

-----------------------------------------------------------------------------
(* Inputs of the segmenter.                                                *)
MaxFragments == 3
MaxRuns == 2
SmallMaxTokens == 4
SmallMinTokens == 3
DefaultMaxTokens == 1000
DefaultMinTokens == 50

Fragments ==
    << <<"S", " ", "1", " ", "a", "\n">>,
       <<"S", " ", "2", "\n">>,
       <<"1", ".", " ", "a", "\n">>,
       <<"a", " ", "b", "\n">>,
       <<"\n">>,
       <<"(", "1", ")", " ", "a", "\n">>,
       <<"P", " ", "1", " ", "a", "\n">> >>

RECURSIVE Concat(_)
Concat(ts) == IF ts = <<>> THEN <<>> ELSE Head(ts) \o Concat(Tail(ts))

(* The scenario document of tests/test_rag.py, word for word.              *)
ScenarioDocument ==
    <<"S", " ", "1", ".", " ", "a", " ", "b", "\n",
      "a", " ", "b", " ", "a", " ", "b", " ", "a", " ", "b", "\n",
      "\n",
      "S", " ", "2", ".", " ", "a", "\n",
      "a", " ", "b", " ", "a", " ", "b", " ", "a", "\n">>

Picks == UNION {[1..n -> 1..Len(Fragments)] : n \in 0..MaxFragments}

Texts ==
    {Concat([i \in DOMAIN pick |-> Fragments[pick[i]]]) : pick \in Picks}
    \cup {ScenarioDocument}

ActNumbers == {0, 7}

(* Threads calling retrieve on one instance; none has started.           *)
MaxThreads == 2
Threads == 1..MaxThreads

IdleThread ==
    [pc |-> "idle", n |-> 0, method |-> "keyword", answer |-> [raised |-> TRUE],
     scores |-> <<>>, returned |-> <<>>, overlapped |-> FALSE]

(* The locals of retrieve: semantic_results, keyword_results,              *)
(* combined_scores, sorted_ids and results.                                *)
EmptyFrame ==
    [semantic_results |-> <<>>, keyword_results |-> <<>>, combined_scores |-> <<>>,
     sorted_ids |-> <<>>, results |-> <<>>]

IdleThreads ==
    /\ threads = [t \in Threads |-> IdleThread]
    /\ frames = [t \in Threads |-> EmptyFrame]

IdleRetriever ==
    /\ retriever = [constructed |-> FALSE]
    /\ lastCall = [op |-> "none"]
    /\ lastResult = [op |-> "none"]
    /\ IdleThreads

InitChunker ==
    /\ text \in Texts
    /\ act_number \in ActNumbers
    /\ max_tokens \in {SmallMaxTokens, DefaultMaxTokens}
    /\ min_tokens \in {SmallMinTokens, DefaultMinTokens}
    /\ encodingLoads \in BOOLEAN
    /\ TOKENIZER = None
    /\ seen_ids = <<>>
    /\ runs = <<>>
    /\ splitIn = None
    /\ splitOut = None
    /\ IdleRetriever

(* One call chunk_document(document, max_tokens, min_tokens).              *)
ChunkDocument ==
    /\ Len(runs) < MaxRuns
    /\ LET out == chunk_document(text, max_tokens, min_tokens)
       IN  /\ runs' = Append(runs, out.chunks)
           /\ seen_ids' = out.seen
    /\ TOKENIZER' = get_tokenizer
    /\ UNCHANGED <<text, act_number, max_tokens, min_tokens, encodingLoads,
                   splitIn, splitOut, retrieverVars, concurrentVars>>

SectionTexts(t) ==
    LET sections == find_sections(t)
    IN  {SectionText(t, sections[k]) : k \in 1..Len(sections)}

(* One call split_large_section(section_text, max_tokens).                 *)
SplitLargeSection ==
    /\ \E section_text \in SectionTexts(text) \cup {text} :
          /\ splitIn' = Some(section_text)
          /\ splitOut' = Some(split_large_section(section_text, max_tokens))
    /\ TOKENIZER' = get_tokenizer
    /\ UNCHANGED <<text, act_number, max_tokens, min_tokens, encodingLoads,
                   seen_ids, runs, retrieverVars, concurrentVars>>

NextChunker == ChunkDocument

SpecChunker == InitChunker /\ [][NextChunker]_vars

(* Section texts of paragraphs separated by blank lines: a paragraph of    *)
(* more than SmallMaxTokens words, a paragraph that is one space, and a    *)
(* one-word paragraph.                                                     *)
ParagraphTexts ==
    LET Paragraphs ==
            << [i \in 1..(2 * SmallMaxTokens + 1) |-> IF i % 2 = 1 THEN "a" ELSE " "],
               <<" ">>,
               <<"b">> >>
        Joined(pick) ==
            Concat([i \in DOMAIN pick |->
                       IF i = 1 THEN Paragraphs[pick[i]]
                       ELSE ParagraphSeparator \o Paragraphs[pick[i]]])
    IN  {Joined(pick) :
            pick \in UNION {[1..n -> 1..Len(Paragraphs)] : n \in 1..MaxFragments}}

(* Direct calls of split_large_section, on the document's sections and on  *)
(* the whole document.                                                     *)
InitSplit ==
    /\ text \in Texts \cup ParagraphTexts
    /\ act_number = 0
    /\ max_tokens \in {SmallMaxTokens, DefaultMaxTokens}
    /\ min_tokens = DefaultMinTokens
    /\ encodingLoads \in BOOLEAN
    /\ TOKENIZER = None
    /\ seen_ids = <<>>
    /\ runs = <<>>
    /\ splitIn = None
    /\ splitOut = None
    /\ IdleRetriever

NextSplit == SplitLargeSection

SpecSplit == InitSplit /\ [][NextSplit]_vars

-----------------------------------------------------------------------------
(* Floats as exact rationals <<n, d>> in lowest terms with d > 0.          *)
Abs(x) == IF x < 0 THEN -x ELSE x

RECURSIVE GCD(_, _)
GCD(a, b) == IF b = 0 THEN a ELSE GCD(b, a % b)

Rat(n, d) ==
    LET g == GCD(Abs(n), Abs(d))
        sgn == IF d < 0 THEN -1 ELSE 1
    IN  <<(sgn * n) \div g, (sgn * d) \div g>>
RatInt(n) == <<n, 1>>
RatAdd(a, b) == Rat(a[1] * b[2] + b[1] * a[2], a[2] * b[2])
RatSub(a, b) == Rat(a[1] * b[2] - b[1] * a[2], a[2] * b[2])
RatLess(a, b) == a[1] * b[2] < b[1] * a[2]
(* w / m for a float w and a non-zero integer m.                           *)
RatOver(w, m) == Rat(w[1], w[2] * m)

-----------------------------------------------------------------------------
(* The HybridRetriever instance.                                           *)
NotConstructed == [constructed |-> FALSE]

MetaGet(metadata, key, default) ==
    IF key \in DOMAIN metadata THEN metadata[key] ELSE default

(* Variant: an item is placed before the items of equal key.              *)
RECURSIVE InsertBeforeTies(_, _)
InsertBeforeTies(sorted, x) ==
    IF sorted = <<>> THEN <<x>>
    ELSE IF ~RatLess(x[2], Head(sorted)[2]) THEN <<x>> \o sorted
    ELSE <<Head(sorted)>> \o InsertBeforeTies(Tail(sorted), x)

(* sorted(items, key=..., reverse=True) over <<item, key>> pairs: stable,  *)
(* descending by key.                                                      *)
RECURSIVE InsertDescending(_, _)
InsertDescending(sorted, x) ==
    IF sorted = <<>> THEN <<x>>
    ELSE IF RatLess(Head(sorted)[2], x[2]) THEN <<x>> \o sorted
    ELSE <<Head(sorted)>> \o InsertDescending(Tail(sorted), x)

RECURSIVE SortedDescending(_)
SortedDescending(pairs) ==
    IF pairs = <<>> THEN <<>>
    ELSE InsertDescending(SortedDescending(SubSeq(pairs, 1, Len(pairs) - 1)),
                          pairs[Len(pairs)])

(* items[:n] for n >= 0.                                                   *)
Take(items, n) == SubSeq(items, 1, IF n < Len(items) THEN n ELSE Len(items))

(* A dict in insertion order: a sequence of <<key, value>> with distinct   *)
(* keys.  DictSet is d[key] = value, DictAdd is d[key] += value on a       *)
(* defaultdict(float).                                                     *)
DictHas(d, key) == \E i \in 1..Len(d) : d[i][1] = key
DictGet(d, key) == d[CHOOSE i \in 1..Len(d) : d[i][1] = key][2]
DictSet(d, key, value) ==
    IF DictHas(d, key)
    THEN [i \in 1..Len(d) |-> IF d[i][1] = key THEN <<key, value>> ELSE d[i]]
    ELSE Append(d, <<key, value>>)
DictAdd(d, key, value) ==
    DictSet(d, key, RatAdd(IF DictHas(d, key) THEN DictGet(d, key) ELSE RatInt(0), value))

RECURSIVE DictFromPairs(_, _)
DictFromPairs(pairs, d) ==
    IF pairs = <<>> THEN d
    ELSE DictFromPairs(Tail(pairs), DictSet(d, Head(pairs)[1], Head(pairs)[2]))

(* _semantic_search.  answer is what collection.query did: it raised, or  *)
(* it gave a list of <<id, distance>> hits.                                *)
Similarity(distance) == RatSub(RatInt(1), distance)

semantic_search(r, answer) ==
    IF r.collection = None THEN <<>>
    ELSE IF answer.raised THEN <<>>
    ELSE [i \in 1..Len(answer.hits) |->
             <<answer.hits[i][1], Similarity(answer.hits[i][2])>>]

(* _keyword_search.  scores is what bm25.get_scores gave, one per document. *)
(* Variant: zero scores are kept.                                         *)
KeepNonNegative(score) == ~RatLess(score, RatInt(0))

KeepScore(score) == RatLess(RatInt(0), score)

RECURSIVE PositiveOnly(_)
PositiveOnly(pairs) ==
    IF pairs = <<>> THEN <<>>
    ELSE IF KeepScore(Head(pairs)[2]) THEN <<Head(pairs)>> \o PositiveOnly(Tail(pairs))
    ELSE PositiveOnly(Tail(pairs))

(* Variant: the first n_results documents are taken in index order.       *)
keyword_search_unsorted(r, scores, n_results) ==
    IF r.bm25 = None THEN <<>>
    ELSE LET kept == PositiveOnly(Take([i \in 1..Len(scores) |-> <<i, scores[i]>>],
                                       n_results))
         IN  [j \in 1..Len(kept) |-> <<r.doc_ids[kept[j][1]], kept[j][2]>>]

keyword_search(r, scores, n_results) ==
    IF r.bm25 = None THEN <<>>
    ELSE LET top_indices ==
                 Take(SortedDescending([i \in 1..Len(scores) |-> <<i, scores[i]>>]),
                      n_results)
             kept == PositiveOnly(top_indices)
         IN  [j \in 1..Len(kept) |-> <<r.doc_ids[kept[j][1]], kept[j][2]>>]

(* _reciprocal_rank_fusion: enumerate(results, start=1).                   *)
(* Variant: ranks counted downwards from -1.                              *)
RankNegated(position) == -position

(* Variant: ranks counted from 0.                                         *)
RankFromZero(position) == position - 1

RankOf(position) == position

(* A ZeroDivisionError leaves no mapping: [raised |-> TRUE].               *)
RECURSIVE AddRanks(_, _, _, _, _)
AddRanks(results, position, weight, k, rrf_scores) ==
    IF rrf_scores.raised \/ position > Len(results) THEN rrf_scores
    ELSE IF k + RankOf(position) = 0 THEN [raised |-> TRUE]
    ELSE AddRanks(results, position + 1, weight, k,
                  [raised |-> FALSE,
                   scores |-> DictAdd(rrf_scores.scores, results[position][1],
                                      RatOver(weight, k + RankOf(position)))])

reciprocal_rank_fusion(r, semantic_results, keyword_results) ==
    AddRanks(keyword_results, 1, r.keyword_weight, r.rrf_k,
             AddRanks(semantic_results, 1, r.semantic_weight, r.rrf_k,
                      [raised |-> FALSE, scores |-> <<>>]))

(* retrieve                                                                *)
IndexOf(ids, id) == SetMin({i \in 1..Len(ids) : ids[i] = id})

(* Variant: the record is not looked up by id; the first one is used.     *)
RetrievalResultOfFirstRecord(r, doc_id, score, method) ==
    LET metadata == r.doc_metadata[1]
    IN  [chunk_id |-> doc_id,
         content |-> r.documents[1],
         act_name |-> MetaGet(metadata, "act_name", ""),
         act_number |-> MetaGet(metadata, "act_number", 0),
         section_number |-> MetaGet(metadata, "section_number", ""),
         section_title |-> MetaGet(metadata, "section_title", ""),
         score |-> score,
         retrieval_method |-> method]

RetrievalResult(r, doc_id, score, method) ==
    LET idx == IndexOf(r.doc_ids, doc_id)
        metadata == r.doc_metadata[idx]
    IN  [chunk_id |-> doc_id,
         content |-> r.documents[idx],
         act_name |-> MetaGet(metadata, "act_name", ""),
         act_number |-> MetaGet(metadata, "act_number", 0),
         section_number |-> MetaGet(metadata, "section_number", ""),
         section_title |-> MetaGet(metadata, "section_title", ""),
         score |-> score,
         retrieval_method |-> method]

(* Variant: the loop stops at the first id that is not in the snapshot.   *)
RECURSIVE BuildResultsUntilStale(_, _, _)
BuildResultsUntilStale(r, sorted_ids, method) ==
    IF sorted_ids = <<>> THEN <<>>
    ELSE IF ~(\E i \in 1..Len(r.doc_ids) : r.doc_ids[i] = Head(sorted_ids)[1])
    THEN <<>>
    ELSE <<RetrievalResult(r, Head(sorted_ids)[1], Head(sorted_ids)[2], method)>>
         \o BuildResultsUntilStale(r, Tail(sorted_ids), method)

RECURSIVE BuildResults(_, _, _)
BuildResults(r, sorted_ids, method) ==
    IF sorted_ids = <<>> THEN <<>>
    ELSE IF ~(\E i \in 1..Len(r.doc_ids) : r.doc_ids[i] = Head(sorted_ids)[1])
    THEN BuildResults(r, Tail(sorted_ids), method)
    ELSE <<RetrievalResult(r, Head(sorted_ids)[1], Head(sorted_ids)[2], method)>>
         \o BuildResults(r, Tail(sorted_ids), method)

(* sorted(combined_scores.keys(), key=score, reverse=True)[:n_results]      *)
(* Variant: the mapping is cut without being sorted.                      *)
UnsortedIds(combined_scores, n_results) == Take(combined_scores, n_results)

SortedIds(combined_scores, n_results) == Take(SortedDescending(combined_scores), n_results)

CombinedScores(r, method, semantic_results, keyword_results) ==
    IF method = "hybrid"
    THEN reciprocal_rank_fusion(r, semantic_results, keyword_results)
    ELSE IF method = "semantic"
    THEN [raised |-> FALSE, scores |-> DictFromPairs(semantic_results, <<>>)]
    ELSE [raised |-> FALSE, scores |-> DictFromPairs(keyword_results, <<>>)]

(* The sub-searches retrieve invokes for a method.                         *)
(* Variant: both sub-searches run whatever the method.                    *)
BothSearches(method) == {"semantic", "keyword"}

SearchesOf(method) ==
    (IF method \in {"hybrid", "semantic"} THEN {"semantic"} ELSE {})
    \cup (IF method \in {"hybrid", "keyword"} THEN {"keyword"} ELSE {})

(* The try block of retrieve: it ends with the result list or with an     *)
(* exception.                                                              *)
retrieve_try(r, n_results, method, answer, scores) ==
    LET semantic_results == IF "semantic" \in SearchesOf(method)
                            THEN semantic_search(r, answer) ELSE <<>>
        keyword_results == IF "keyword" \in SearchesOf(method)
                           THEN keyword_search(r, scores, n_results * 2) ELSE <<>>
        combined == CombinedScores(r, method, semantic_results, keyword_results)
    IN  IF combined.raised THEN [raised |-> TRUE]
        ELSE [raised |-> FALSE,
              results |-> BuildResults(r, SortedIds(combined.scores, n_results), method)]

(* Variant: the exception of the try block reaches the caller.            *)
retrieve_outcome_unguarded(r, n_results, method, answer, scores) ==
    retrieve_try(r, n_results, method, answer, scores)

(* The whole call as the caller sees it: except Exception returns [].      *)
retrieve_outcome(r, n_results, method, answer, scores) ==
    LET body == retrieve_try(r, n_results, method, answer, scores)
    IN  IF body.raised THEN [raised |-> FALSE, results |-> <<>>] ELSE body

retrieve(r, n_results, method, answer, scores) ==
    retrieve_outcome(r, n_results, method, answer, scores).results

(* format_context: one block per result, joined by the delimiter.         *)
RECURSIVE JoinWith(_, _)
JoinWith(separator, parts) ==
    IF parts = <<>> THEN ""
    ELSE IF Len(parts) = 1 THEN parts[1]
    ELSE parts[1] \o separator \o JoinWith(separator, Tail(parts))

ContextDelimiter == "\n\n---\n\n"

(* Variant: the title part is added whether or not there is a title.      *)
context_header_always_titled(i, result, include_metadata) ==
    IF include_metadata
    THEN "[Source " \o ToString(i) \o ": " \o result.act_name \o ", "
             \o "Section " \o result.section_number
             \o " - " \o result.section_title \o "]"
    ELSE "[Source " \o ToString(i) \o "]"

(* The header of block i: header[:-1] drops the closing bracket before the *)
(* title is added.                                                         *)
context_header(i, result, include_metadata) ==
    IF include_metadata
    THEN LET header == "[Source " \o ToString(i) \o ": " \o result.act_name \o ", "
                           \o "Section " \o result.section_number \o "]"
         IN  IF result.section_title # ""
             THEN SubSeq(header, 1, Len(header) - 1)
                      \o " - " \o result.section_title \o "]"
             ELSE header
    ELSE "[Source " \o ToString(i) \o "]"

format_context(results, include_metadata) ==
    JoinWith(ContextDelimiter,
             [i \in 1..Len(results) |->
                 context_header(i, results[i], include_metadata)
                     \o "\n" \o results[i].content])

-----------------------------------------------------------------------------
(* Inputs of the retriever.                                                *)
MaxN == 2
MaxVectorHits == 3

(* RAGConfig values: <<semantic_weight, keyword_weight, rrf_k>>.  The      *)
(* first is the default configuration.                                     *)
DefaultRrfK == 60
Configs ==
    { <<Rat(1, 2), Rat(1, 2), DefaultRrfK>>,
      <<Rat(1, 1), Rat(1, 2), 0>>,
      <<Rat(1, 1), Rat(0, 1), 1>>,
      <<Rat(1, 2), Rat(1, 2), -1>>,
      <<Rat(-1, 2), Rat(1, 2), 1>> }

(* What collection.get returns for a populated store; the third document   *)
(* is None and the metadata of the later records lack keys.                *)
StoreIds == <<"c1", "c2", "c3">>
StoreDocuments == <<Some("free consent"), Some("consideration"), None>>
StoreMetadata ==
    << [act_name |-> "Contracts Act", act_number |-> 136,
        section_number |-> "10", section_title |-> "Free consent"],
       [act_name |-> "Contracts Act", act_number |-> 136, section_number |-> "2"],
       [act_name |-> "Housing Act"] >>

(* Ids the vector store may answer with: the snapshot's and a stale one.   *)
VectorIds == {StoreIds[i] : i \in 1..Len(StoreIds)} \cup {"stale"}
Distances == {Rat(0, 1), Rat(1, 2), Rat(3, 2)}
ScoreValues == {RatInt(-1), RatInt(0), RatInt(1), RatInt(2)}

(* Hit lists of collection.query: distinct ids, nearest first.             *)
HitLists ==
    {h \in UNION {[1..len -> VectorIds \X Distances] : len \in 0..MaxVectorHits} :
        /\ \A i, j \in DOMAIN h : i # j => h[i][1] # h[j][1]
        /\ \A i \in DOMAIN h : i + 1 \in DOMAIN h => ~RatLess(h[i + 1][2], h[i][2])}

NotAsked == [raised |-> FALSE, hits |-> <<>>]
VectorAnswers(n_results) ==
    {[raised |-> TRUE]}
    \cup {[raised |-> FALSE, hits |-> h] : h \in {x \in HitLists : Len(x) <= n_results}}

ScoreVectors == [1..Len(StoreIds) -> ScoreValues]

Methods == {"semantic", "keyword", "hybrid"}

NoCall == [op |-> "none"]

IdleChunker ==
    /\ text = <<>>
    /\ act_number = 0
    /\ max_tokens = DefaultMaxTokens
    /\ min_tokens = DefaultMinTokens
    /\ encodingLoads = TRUE
    /\ TOKENIZER = None
    /\ seen_ids = <<>>
    /\ runs = <<>>
    /\ splitIn = None
    /\ splitOut = None

InitRetriever ==
    /\ retriever = NotConstructed
    /\ lastCall = NoCall
    /\ lastResult = NoCall
    /\ IdleThreads
    /\ IdleChunker

(* HybridRetriever(config): __init__ and _initialize.  store is how the    *)
(* backing store answers: it raises, it is empty, or it is populated.      *)
NewRetriever(config, store) ==
    [constructed |-> TRUE,
     semantic_weight |-> config[1],
     keyword_weight |-> config[2],
     rrf_k |-> config[3],
     collection |-> Some("collection"),
     bm25 |-> IF store = "loaded" THEN Some("BM25Okapi") ELSE None,
     doc_ids |-> IF store = "loaded" THEN StoreIds ELSE <<>>,
     documents |->
         IF store = "loaded"
         THEN [i \in 1..Len(StoreDocuments) |->
                  IF StoreDocuments[i] # None
                  THEN StoreDocuments[i][1] ELSE ""]
         ELSE <<>>,
     doc_metadata |-> IF store = "loaded" THEN StoreMetadata ELSE <<>>]

(* Variant: an empty collection is treated as a failure too.              *)
initialize_failing_on_empty(config, store) ==
    IF store # "loaded" THEN [raised |-> TRUE]
    ELSE [raised |-> FALSE, instance |-> NewRetriever(config, store)]

initialize(config, store) ==
    IF store = "unavailable" THEN [raised |-> TRUE]
    ELSE [raised |-> FALSE, instance |-> NewRetriever(config, store)]

Construct ==
    /\ ~retriever.constructed
    /\ lastCall = NoCall
    /\ \E config \in Configs, store \in {"unavailable", "empty", "loaded"} :
          LET outcome == initialize(config, store)
          IN  /\ lastCall' = [op |-> "init", config |-> config, store |-> store]
              /\ retriever' = IF outcome.raised THEN retriever ELSE outcome.instance
              /\ lastResult' = [raised |-> outcome.raised]
    /\ UNCHANGED <<chunkerVars, concurrentVars>>

(* The instance after a query-time method ran on instance r: retrieve,    *)
(* _semantic_search, _keyword_search, _reciprocal_rank_fusion and          *)
(* format_context assign to no field of self.                              *)
(* Variant: a query on an instance without lexical index loads the corpus. *)
instance_after_query_reloading(r) ==
    IF r.bm25 = None
    THEN NewRetriever(<<r.semantic_weight, r.keyword_weight, r.rrf_k>>, "loaded")
    ELSE r

instance_after_query(r) == r

(* One call retrieve(query, n, method): answer and scores are what the     *)
(* vector store and the BM25 index give for this query.                    *)
Retrieve ==
    /\ retriever.constructed
    /\ lastCall = NoCall
    /\ \E n \in 0..MaxN, method \in Methods :
       \E answer \in IF "semantic" \in SearchesOf(method)
                     THEN VectorAnswers(n * 2) ELSE {NotAsked},
          scores \in IF "keyword" \in SearchesOf(method) /\ retriever.bm25 # None
                     THEN ScoreVectors ELSE {<<>>} :
          /\ lastCall' = [op |-> "retrieve", n |-> n, method |-> method,
                          invoked |-> SearchesOf(method),
                          answer |-> answer, scores |-> scores]
          /\ lastResult' = retrieve_outcome(retriever, n, method, answer, scores)
    /\ retriever' = instance_after_query(retriever)
    /\ UNCHANGED <<chunkerVars, concurrentVars>>

(* One call _reciprocal_rank_fusion(semantic_results, keyword_results) on  *)
(* lists the two sub-searches produce.                                     *)
ReciprocalRankFusion ==
    /\ retriever.constructed
    /\ lastCall = NoCall
    /\ \E answer \in VectorAnswers(MaxVectorHits),
          scores \in IF retriever.bm25 # None THEN ScoreVectors ELSE {<<>>} :
          LET semantic_results == semantic_search(retriever, answer)
              keyword_results == keyword_search(retriever, scores, Len(scores))
          IN  /\ lastCall' = [op |-> "rrf", semantic_results |-> semantic_results,
                              keyword_results |-> keyword_results]
              /\ lastResult' = reciprocal_rank_fusion(retriever, semantic_results,
                                                      keyword_results)
    /\ retriever' = instance_after_query(retriever)
    /\ UNCHANGED <<chunkerVars, concurrentVars>>

(* One direct call _semantic_search(query, n_results).                     *)
SemanticSearch ==
    /\ retriever.constructed
    /\ lastCall = NoCall
    /\ \E answer \in VectorAnswers(MaxVectorHits) :
          /\ lastCall' = [op |-> "semantic_search", answer |-> answer]
          /\ lastResult' = [raised |-> FALSE, hits |-> semantic_search(retriever, answer)]
    /\ retriever' = instance_after_query(retriever)
    /\ UNCHANGED <<chunkerVars, concurrentVars>>

(* One direct call _keyword_search(query, n_results).                      *)
KeywordSearch ==
    /\ retriever.constructed
    /\ lastCall = NoCall
    /\ \E n \in 0..(2 * MaxN),
          scores \in IF retriever.bm25 # None THEN ScoreVectors ELSE {<<>>} :
          /\ lastCall' = [op |-> "keyword_search", n |-> n, scores |-> scores]
          /\ lastResult' = [raised |-> FALSE, hits |-> keyword_search(retriever, scores, n)]
    /\ retriever' = instance_after_query(retriever)
    /\ UNCHANGED <<chunkerVars, concurrentVars>>

(* One call format_context(results, include_metadata) on a list of       *)
(* results hydrated from the instance's records.                           *)
MaxResults == 3

ResultLists(r) ==
    LET records == {RetrievalResult(r, r.doc_ids[i], RatInt(1), "hybrid") :
                        i \in 1..Len(r.doc_ids)}
    IN  UNION {[1..len -> records] : len \in 0..MaxResults}

FormatContext ==
    /\ retriever.constructed
    /\ lastCall = NoCall
    /\ \E results \in ResultLists(retriever), include_metadata \in BOOLEAN :
          /\ lastCall' = [op |-> "format_context", results |-> results,
                          include_metadata |-> include_metadata]
          /\ lastResult' = [raised |-> FALSE,
                            context |-> format_context(results, include_metadata)]
    /\ retriever' = instance_after_query(retriever)
    /\ UNCHANGED <<chunkerVars, concurrentVars>>

(* The caller is done with the latest result.                              *)
Discard ==
    /\ lastCall # NoCall
    /\ lastCall' = NoCall
    /\ lastResult' = NoCall
    /\ UNCHANGED <<retriever, chunkerVars, concurrentVars>>

NextRetriever ==
    \/ Construct
    \/ Retrieve
    \/ ReciprocalRankFusion
    \/ SemanticSearch
    \/ KeywordSearch
    \/ FormatContext
    \/ Discard

SpecRetriever == InitRetriever /\ [][NextRetriever]_vars

-----------------------------------------------------------------------------
(* Concurrent retrieve calls on one constructed instance.  Each thread     *)
(* runs the statements of retrieve one at a time; the statements of        *)
(* different threads interleave freely.  The vector store is safe for      *)
(* concurrent reads: what it answers to a query does not depend on the     *)
(* other calls in progress, so the answer is fixed with the query.         *)

(* The queries the threads issue: n, method, the vector store's answer and *)
(* the BM25 scores for the query.                                          *)
ConcurrentQueries ==
    { [n |-> 2, method |-> "hybrid",
       answer |-> [raised |-> FALSE,
                   hits |-> << <<"c1", Rat(0, 1)>>, <<"stale", Rat(1, 2)>> >>],
       scores |-> <<RatInt(1), RatInt(2), RatInt(0)>>],
      [n |-> 1, method |-> "keyword", answer |-> NotAsked,
       scores |-> <<RatInt(2), RatInt(1), RatInt(1)>>],
      [n |-> 2, method |-> "semantic",
       answer |-> [raised |-> FALSE,
                   hits |-> << <<"c2", Rat(1, 2)>>, <<"c3", Rat(3, 2)>> >>],
       scores |-> <<>>],
      [n |-> 1, method |-> "hybrid", answer |-> [raised |-> TRUE],
       scores |-> <<RatInt(0), RatInt(0), RatInt(1)>>] }

Busy(t) == threads[t].pc \notin {"idle", "done"}

(* Variant: the locals are kept in one place shared by all calls (as       *)
(* attributes of the instance would be).                                   *)
shared_frame(t) == 1

(* Where the locals of thread t's call live: every call of retrieve has    *)
(* its own frame.                                                          *)
frame_of(t) == t

SetLocal(t, name, value) ==
    frames' = [frames EXCEPT ![frame_of(t)][name] = value]
Local(t, name) == frames[frame_of(t)][name]
Goto(t, label) == threads' = [threads EXCEPT ![t].pc = label]

(* Thread t calls retrieve(query, n, method) and gets a new frame; any     *)
(* call in progress is now overlapped by this one, and this one by it.     *)
(* The frame is dropped again when the call returns.                       *)
BeginRetrieve(t) ==
    /\ ~Busy(t)
    /\ \E q \in ConcurrentQueries :
          threads' =
              [u \in Threads |->
                  IF u = t
                  THEN [pc |-> "lists", n |-> q.n, method |-> q.method,
                        answer |-> q.answer, scores |-> q.scores, returned |-> <<>>,
                        overlapped |-> \E v \in Threads \ {t} : Busy(v)]
                  ELSE IF Busy(u) THEN [threads[u] EXCEPT !.overlapped = TRUE]
                  ELSE threads[u]]
    /\ frames' = [frames EXCEPT ![frame_of(t)] = EmptyFrame]

(* semantic_results = []; keyword_results = []                             *)
ResetLists(t) ==
    /\ threads[t].pc = "lists"
    /\ frames' = [frames EXCEPT ![frame_of(t)].semantic_results = <<>>,
                                ![frame_of(t)].keyword_results = <<>>]
    /\ Goto(t, "semantic")

RunSemanticSearch(t) ==
    /\ threads[t].pc = "semantic"
    /\ IF threads[t].method \in {"hybrid", "semantic"}
       THEN SetLocal(t, "semantic_results", semantic_search(retriever, threads[t].answer))
       ELSE UNCHANGED frames
    /\ Goto(t, "keyword")

RunKeywordSearch(t) ==
    /\ threads[t].pc = "keyword"
    /\ IF threads[t].method \in {"hybrid", "keyword"}
       THEN SetLocal(t, "keyword_results",
                     keyword_search(retriever, threads[t].scores, threads[t].n * 2))
       ELSE UNCHANGED frames
    /\ Goto(t, "combine")

(* combined_scores = ...; an exception of the fusion ends the call in the  *)
(* except clause, which returns [].                                        *)
Combine(t) ==
    /\ threads[t].pc = "combine"
    /\ LET combined == CombinedScores(retriever, threads[t].method,
                                      Local(t, "semantic_results"),
                                      Local(t, "keyword_results"))
       IN  IF combined.raised
           THEN /\ threads' = [threads EXCEPT ![t].pc = "done", ![t].returned = <<>>]
                /\ frames' = [frames EXCEPT ![frame_of(t)] = EmptyFrame]
           ELSE /\ SetLocal(t, "combined_scores", combined.scores)
                /\ Goto(t, "sort")

SortAndCut(t) ==
    /\ threads[t].pc = "sort"
    /\ SetLocal(t, "sorted_ids", SortedIds(Local(t, "combined_scores"), threads[t].n))
    /\ Goto(t, "build")

Hydrate(t) ==
    /\ threads[t].pc = "build"
    /\ SetLocal(t, "results",
                BuildResults(retriever, Local(t, "sorted_ids"), threads[t].method))
    /\ Goto(t, "return")

ReturnResults(t) ==
    /\ threads[t].pc = "return"
    /\ threads' = [threads EXCEPT ![t].pc = "done", ![t].returned = Local(t, "results")]
    /\ frames' = [frames EXCEPT ![frame_of(t)] = EmptyFrame]

InitConcurrent ==
    /\ \E config \in Configs : retriever = NewRetriever(config, "loaded")
    /\ lastCall = NoCall
    /\ lastResult = NoCall
    /\ IdleThreads
    /\ IdleChunker

ThreadStep(t) ==
    \/ BeginRetrieve(t)
    \/ ResetLists(t)
    \/ RunSemanticSearch(t)
    \/ RunKeywordSearch(t)
    \/ Combine(t)
    \/ SortAndCut(t)
    \/ Hydrate(t)
    \/ ReturnResults(t)

NextConcurrent ==
    /\ \E t \in Threads : ThreadStep(t)
    /\ UNCHANGED <<chunkerVars, retrieverVars>>

SpecConcurrent == InitConcurrent /\ [][NextConcurrent]_vars

-----------------------------------------------------------------------------
(* Properties of the retriever, checked under SpecRetriever.               *)

(* 1-based rank of id in a list of <<id, score>> pairs, 0 when absent.     *)
RankIn(results, id) ==
    IF \E i \in 1..Len(results) : results[i][1] = id
    THEN SetMin({i \in 1..Len(results) : results[i][1] = id})
    ELSE 0

RrfTerm(weight, k, rank) == IF rank = 0 THEN RatInt(0) ELSE RatOver(weight, k + rank)

ScoresNonIncreasing(results) ==
    \A i \in 1..(Len(results) - 1) : ~RatLess(results[i].score, results[i + 1].score)
ScoresStrictlyDecreasing(results) ==
    \A i \in 1..(Len(results) - 1) : RatLess(results[i + 1].score, results[i].score)

\* C2 as stated: retrieve returns at most n results, each score strictly
\* greater than the next one's.
RetrieveStrictlySorted ==
    lastCall.op = "retrieve" =>
        /\ Len(lastResult.results) <= lastCall.n
        /\ ScoresStrictlyDecreasing(lastResult.results)

\* C2 as amended: retrieve returns at most n results, sorted by
\* non-increasing combined score (equal scores may be adjacent).
RetrieveAtMostNSortedDescending ==
    lastCall.op = "retrieve" =>
        /\ Len(lastResult.results) <= lastCall.n
        /\ ScoresNonIncreasing(lastResult.results)

\* C2 witness: a call that returned exactly n = 2 results, cut from more
\* than n candidates, whose two scores are equal.
RetrieveReturnedTie ==
    /\ lastCall.op = "retrieve"
    /\ lastCall.n = 2
    /\ Len(lastResult.results) = 2
    /\ lastResult.results[1].score = lastResult.results[2].score
    /\ Len(lastCall.scores) = 3
    /\ \A i \in 1..3 : RatLess(RatInt(0), lastCall.scores[i])

\* C3: every result of retrieve(method="keyword") carries the BM25 score of
\* its document, and that score is greater than zero.
KeywordResultsHavePositiveBm25Score ==
    (lastCall.op = "retrieve" /\ lastCall.method = "keyword") =>
        \A i \in 1..Len(lastResult.results) :
            LET res == lastResult.results[i]
            IN  /\ RatLess(RatInt(0), res.score)
                /\ res.score = lastCall.scores[IndexOf(retriever.doc_ids, res.chunk_id)]

\* C3 witness: a keyword call whose top 2n documents include one with a
\* zero score and one with a negative score, and which still returned a
\* result.
KeywordDroppedNonPositiveScores ==
    /\ lastCall.op = "retrieve"
    /\ lastCall.method = "keyword"
    /\ lastCall.n = 2
    /\ Len(lastResult.results) = 1
    /\ \E i, j \in 1..Len(lastCall.scores) :
          lastCall.scores[i] = RatInt(0) /\ lastCall.scores[j] = RatInt(-1)

-----------------------------------------------------------------------------
(* Properties of the segmenter, checked under SpecChunker.                 *)

\* C4: the list returned by one chunk_document call contains no two chunks
\* with the same chunk_id.
ChunkIdsUnique ==
    \A r \in 1..Len(runs) :
        \A i, j \in 1..Len(runs[r]) :
            i # j => runs[r][i].chunk_id # runs[r][j].chunk_id

\* C4 witness: a call that returned chunks of two sections with the same
\* section number, the later one with the _dup1 suffix, after a preamble.
RepeatedSectionNumberGotDupSuffix ==
    /\ runs # <<>>
    /\ \E i, j \in 1..Len(runs[1]) :
          /\ i < j
          /\ runs[1][i].section_number = runs[1][j].section_number
          /\ runs[1][j].chunk_id = runs[1][i].chunk_id \o "_dup1"
    /\ runs[1][1].section_number = Some("Preamble")

(* The source ranges of segmentation: the sections' [start, end) and, when *)
(* the preamble chunk is emitted, [0, first start).                        *)
EmittedRangesOf(sections, preambleEmitted) ==
    (IF preambleEmitted THEN << <<0, sections[1].start>> >> ELSE <<>>)
    \o [k \in 1..Len(sections) |-> <<sections[k].start, sections[k].end>>]
RangesSortedDisjoint(ranges) ==
    /\ \A k \in 1..Len(ranges) : ranges[k][1] < ranges[k][2]
    /\ \A k \in 1..(Len(ranges) - 1) : ranges[k][2] <= ranges[k + 1][1]
RangesCoverOnce(ranges, from, to) ==
    \A offset \in from..(to - 1) :
        Cardinality({k \in 1..Len(ranges) :
                        ranges[k][1] <= offset /\ offset < ranges[k][2]}) = 1
NonBlank(t) == Cardinality({i \in 1..Len(t) : ~IsSpace(t[i])})
RECURSIVE NonBlankOfChunks(_)
NonBlankOfChunks(chunks) ==
    IF chunks = <<>> THEN 0
    ELSE NonBlank(Head(chunks).content) + NonBlankOfChunks(Tail(chunks))

\* C5 as stated: for a text with a section header the emitted source ranges
\* are pairwise non-overlapping, sorted by start, and every offset from 0 to
\* len(text) lies in exactly one of them.
RangesCoverWholeSource ==
    runs # <<>> =>
        LET sections == find_sections(text)
            ranges == EmittedRangesOf(sections,
                                      PreambleChunks(text, sections, min_tokens) # <<>>)
        IN  sections # <<>> =>
                /\ RangesSortedDisjoint(ranges)
                /\ RangesCoverOnce(ranges, 0, Len(text))

\* C5 as amended: for a text with a section header the section ranges are
\* pairwise non-overlapping, sorted by start, and every offset from the
\* first header to len(text) lies in exactly one of them; the text before
\* the first header is in an emitted range only when its stripped form is
\* non-empty and has at least min_tokens tokens; the emitted chunks hold
\* exactly the non-blank characters of the covered part of the source.
RangesCoverSourceFromFirstHeader ==
    runs # <<>> =>
        LET sections == find_sections(text)
            first == sections[1].start
            preamble == Strip(Slice(text, 0, first))
            preambleEmitted == PreambleChunks(text, sections, min_tokens) # <<>>
            ranges == EmittedRangesOf(sections, preambleEmitted)
            covered_from == IF preambleEmitted THEN 0 ELSE first
        IN  sections # <<>> =>
                /\ RangesSortedDisjoint(ranges)
                /\ RangesCoverOnce(ranges, covered_from, Len(text))
                /\ preambleEmitted <=>
                      (preamble # <<>> /\ count_tokens(preamble) >= min_tokens)
                /\ preambleEmitted =>
                      /\ runs[1][1].start_position = 0
                      /\ Len(runs[1][1].content) >= Len(preamble)
                      /\ SubSeq(runs[1][1].content, 1, Len(preamble)) = preamble
                /\ ~preambleEmitted => runs[1][1].start_position = first
                /\ NonBlankOfChunks(runs[1]) = NonBlank(Slice(text, covered_from, Len(text)))

\* C5 witness: a call on a text with two section headers and a preamble
\* that was too short to be emitted.
SegmentedWithDroppedPreamble ==
    /\ runs # <<>>
    /\ Len(find_sections(text)) = 2
    /\ find_sections(text)[1].start > 0
    /\ PreambleChunks(text, find_sections(text), min_tokens) = <<>>
    /\ Len(runs[1]) = 2

(* A split point of a section text: a subsection marker at a line start,   *)
(* or otherwise a paragraph boundary.                                      *)
HasSplitPoint(section_text) ==
    \/ SubsectionMatches(section_text, 0) # <<>>
    \/ Len(SplitParagraphs(section_text)) > 1

\* C6 as stated: a section text over max_tokens that has a split point is
\* split into two or more pieces, each of at most max_tokens tokens.
SplitPiecesWithinMaxTokens ==
    (/\ splitIn # None
     /\ encodingLoads
     /\ count_tokens(splitIn[1]) > max_tokens
     /\ HasSplitPoint(splitIn[1])) =>
        /\ Len(splitOut[1]) >= 2
        /\ \A i \in 1..Len(splitOut[1]) : count_tokens(splitOut[1][i]) <= max_tokens

\* C7 as stated: the scenario document, segmented with the default
\* thresholds, yields exactly two chunks with section_number "1" and "2".
ScenarioYieldsTwoChunks ==
    (/\ runs # <<>>
     /\ text = ScenarioDocument
     /\ max_tokens = DefaultMaxTokens
     /\ min_tokens = DefaultMinTokens) =>
        /\ Len(runs[1]) = 2
        /\ runs[1][1].section_number = Some("1")
        /\ runs[1][2].section_number = Some("2")

\* C7 as amended: in the scenario document find_sections finds exactly two
\* sections, "1" and "2" in that order; chunk_document with the default
\* thresholds yields exactly one chunk, with section_number "1", whose
\* content is section 1 followed by a blank line and section 2, because
\* section 2 has fewer than min_tokens = 50 tokens.
ScenarioYieldsOneMergedChunk ==
    (/\ runs # <<>>
     /\ text = ScenarioDocument
     /\ max_tokens = DefaultMaxTokens
     /\ min_tokens = DefaultMinTokens) =>
        LET sections == find_sections(text)
        IN  /\ Len(sections) = 2
            /\ sections[1].section_number = "1"
            /\ sections[2].section_number = "2"
            /\ Len(runs[1]) = 1
            /\ runs[1][1].section_number = Some("1")
            /\ runs[1][1].chunk_id = "act_" \o ToString(act_number) \o "_s1"
            /\ runs[1][1].content =
                  SectionText(text, sections[1]) \o ParagraphSeparator
                  \o SectionText(text, sections[2])

\* C7 witness: chunk_document has run on the scenario document with the
\* default thresholds and a working tokenizer.
ScenarioSegmentedWithDefaults ==
    /\ runs # <<>>
    /\ text = ScenarioDocument
    /\ max_tokens = DefaultMaxTokens
    /\ min_tokens = DefaultMinTokens
    /\ encodingLoads
    /\ count_tokens(SectionText(text, find_sections(text)[2])) < DefaultMinTokens

\* C8: every later chunk_document call on the same document with the same
\* thresholds returns the same chunks, in the same order, as the first.
RerunGivesSameChunks ==
    \A r \in 1..Len(runs) : runs[r] = runs[1]

\* C8 witness: a second call has returned, the first call left a cached
\* tokenizer and deduplication counters behind, and its output carried a
\* deduplicated id.
RerunAfterDedupAndCachedTokenizer ==
    /\ Len(runs) >= 2
    /\ TOKENIZER # None
    /\ \E b \in DOMAIN seen_ids : seen_ids[b] > 0
    /\ \E i, j \in 1..Len(runs[2]) :
          i < j /\ runs[2][j].chunk_id = runs[2][i].chunk_id \o "_dup1"

\* C9 as stated: chunk_document on an empty cleaned text returns an empty
\* chunk sequence.
EmptyTextYieldsNoChunks ==
    (runs # <<>> /\ text = <<>>) => runs[1] = <<>>

\* C10: when the text has no section header, chunk_document returns exactly
\* one chunk: content the whole text, start_position 0, no part, no
\* section_number, no section_title, and id act_<act_number>_full.
NoHeaderYieldsOneFullChunk ==
    (runs # <<>> /\ find_sections(text) = <<>>) =>
        \A r \in 1..Len(runs) :
            /\ Len(runs[r]) = 1
            /\ runs[r][1].content = text
            /\ runs[r][1].start_position = 0
            /\ runs[r][1].part = None
            /\ runs[r][1].section_number = None
            /\ runs[r][1].section_title = None
            /\ runs[r][1].chunk_id = "act_" \o ToString(act_number) \o "_full"
            /\ runs[r][1].act_number = act_number

\* C10 witness: a call on a non-empty text with a PART header, a body line
\* and trailing white space, but no section header.
FallbackOnTextWithPartHeader ==
    /\ runs # <<>>
    /\ find_sections(text) = <<>>
    /\ PartMatches(text, 0) # <<>>
    /\ Len(text) > 6
    /\ Strip(text) # text

\* C11 as stated: every chunk of every chunk_document output has non-empty
\* content, whatever the text and the max_tokens/min_tokens thresholds.
EveryChunkHasNonEmptyContent ==
    \A r \in 1..Len(runs) :
        \A i \in 1..Len(runs[r]) : runs[r][i].content # <<>>

-----------------------------------------------------------------------------
(* Error handling and frame properties of the retriever, checked under     *)
(* SpecRetriever.                                                          *)

(* A configuration <<semantic_weight, keyword_weight, rrf_k>> with a       *)
(* negative weight or a negative k.                                        *)
InvalidConfig(config) ==
    \/ RatLess(config[1], RatInt(0))
    \/ RatLess(config[2], RatInt(0))
    \/ config[3] < 0

\* C12 as stated: constructing the retriever with a negative
\* semantic_weight, keyword_weight or rrf_k raises at once, and no
\* constructed retriever holds such a configuration.
InvalidConfigRejectedAtConstruction ==
    /\ (lastCall.op = "init" /\ InvalidConfig(lastCall.config)) => lastResult.raised
    /\ retriever.constructed =>
           ~InvalidConfig(<<retriever.semantic_weight, retriever.keyword_weight,
                            retriever.rrf_k>>)

(* A retrieve call whose collection.query raised.                          *)
VectorSearchRaised(call) ==
    /\ call.op = "retrieve"
    /\ call.method \in {"hybrid", "semantic"}
    /\ call.answer.raised

(* results are the first n entries of the keyword ranking of the call,     *)
(* each with the keyword term of the fusion as its score.                  *)
ResultsFromKeywordRankingOnly(r, call, results) ==
    LET ranking == keyword_search(r, call.scores, call.n * 2)
        m == IF call.n < Len(ranking) THEN call.n ELSE Len(ranking)
    IN  /\ Len(results) = m
        /\ \A i \in 1..m :
              /\ results[i].chunk_id = ranking[i][1]
              /\ r.rrf_k + i # 0
              /\ results[i].score = RrfTerm(r.keyword_weight, r.rrf_k, i)

\* C13 as stated: when collection.query raises during a hybrid retrieve, the
\* call does not raise and returns the results of the keyword ranking alone;
\* the instance is left as it was, so a later call is unaffected.
HybridSurvivesVectorSearchFailure ==
    /\ [](VectorSearchRaised(lastCall) /\ lastCall.method = "hybrid" =>
              /\ ~lastResult.raised
              /\ ResultsFromKeywordRankingOnly(retriever, lastCall, lastResult.results))
    /\ [][VectorSearchRaised(lastCall') => retriever' = retriever]_vars

(* The two ranked lists of a retrieve call, as its sub-searches gave them. *)
SemanticListOf(r, call) ==
    IF call.method \in {"hybrid", "semantic"} THEN semantic_search(r, call.answer) ELSE <<>>
KeywordListOf(r, call) ==
    IF call.method \in {"hybrid", "keyword"}
    THEN keyword_search(r, call.scores, call.n * 2) ELSE <<>>

IdsOf(pairs) == {pairs[i][1] : i \in 1..Len(pairs)}
ResultIds(results) == {results[i].chunk_id : i \in 1..Len(results)}

CombinedOf(r, call) ==
    CombinedScores(r, call.method, SemanticListOf(r, call), KeywordListOf(r, call))
TopNOf(r, call) == SortedIds(CombinedOf(r, call).scores, call.n)

InSnapshot(r, id) == \E i \in 1..Len(r.doc_ids) : r.doc_ids[i] = id

(* The pairs of a list whose id is in the snapshot, in the list's order.   *)
RECURSIVE KnownOnly(_, _)
KnownOnly(r, pairs) ==
    IF pairs = <<>> THEN <<>>
    ELSE IF InSnapshot(r, Head(pairs)[1])
    THEN <<Head(pairs)>> \o KnownOnly(r, Tail(pairs))
    ELSE KnownOnly(r, Tail(pairs))

\* C15: retrieve raises no error, and whenever the call has combined scores,
\* an id of the top n that is not in the snapshot loaded at construction is
\* not in the result list, while the other ids of the top n are all
\* returned, in the order of the top n.
StaleIdsSkippedSilently ==
    lastCall.op = "retrieve" =>
        LET combined == CombinedOf(retriever, lastCall)
        IN  /\ ~lastResult.raised
            /\ \A i \in 1..Len(lastResult.results) :
                   InSnapshot(retriever, lastResult.results[i].chunk_id)
            /\ ~combined.raised =>
                   LET kept == KnownOnly(retriever, SortedIds(combined.scores, lastCall.n))
                   IN  /\ Len(lastResult.results) = Len(kept)
                       /\ \A i \in 1..Len(kept) :
                              /\ lastResult.results[i].chunk_id = kept[i][1]
                              /\ lastResult.results[i].score = kept[i][2]

\* C15 witness: a call with n = 2 whose top n has a stale id first and a
\* known id second, and which returned that known id alone.
StaleIdRankedAboveKnownId ==
    /\ lastCall.op = "retrieve"
    /\ lastCall.n = 2
    /\ ~CombinedOf(retriever, lastCall).raised
    /\ LET top == TopNOf(retriever, lastCall)
       IN  /\ Len(top) = 2
           /\ ~InSnapshot(retriever, top[1][1])
           /\ InSnapshot(retriever, top[2][1])
           /\ Len(lastResult.results) = 1
           /\ lastResult.results[1].chunk_id = top[2][1]

\* C16: a constructed retriever's retrieve never raises, whatever n, method
\* and collaborator answers: a failed vector search leaves the results of
\* the keyword list only, a failure of the combination leaves the empty
\* list, and every result comes from a list that survived; the constructor
\* is the only call that raises.
OnlyConstructionRaises ==
    /\ lastCall.op = "retrieve" =>
           LET semantic_results == SemanticListOf(retriever, lastCall)
               keyword_results == KeywordListOf(retriever, lastCall)
               semantic_ids == IdsOf(semantic_results)
               keyword_ids == IdsOf(keyword_results)
               returned_ids == ResultIds(lastResult.results)
           IN  /\ ~lastResult.raised
               /\ returned_ids \subseteq semantic_ids \cup keyword_ids
               /\ VectorSearchRaised(lastCall) => returned_ids \subseteq keyword_ids
               /\ (lastCall.method = "hybrid"
                       /\ \E rank \in (1..Len(semantic_results)) \cup (1..Len(keyword_results)) :
                              retriever.rrf_k + rank = 0)
                      => lastResult.results = <<>>
    /\ (lastCall.op = "init" /\ lastResult.raised) => ~retriever.constructed
    /\ (lastCall.op \in {"init", "retrieve"} /\ lastResult.raised) => lastCall.op = "init"

\* C16 witness: a hybrid call whose combination failed inside retrieve
\* although the keyword list was not empty, and which returned the empty
\* list.
RetrieveAbsorbedFailedCombination ==
    /\ lastCall.op = "retrieve"
    /\ CombinedOf(retriever, lastCall).raised
    /\ KeywordListOf(retriever, lastCall) # <<>>
    /\ lastResult = [raised |-> FALSE, results |-> <<>>]

\* C17: the indices are built once, by the constructor; from then on no
\* call changes the instance: its id list, document list, metadata list,
\* BM25 index, weights and rrf_k stay what the constructor made them.
InstanceUnchangedAfterConstruction ==
    [][retriever.constructed =>
           /\ retriever' = retriever
           /\ retriever'.doc_ids = retriever.doc_ids
           /\ retriever'.documents = retriever.documents
           /\ retriever'.doc_metadata = retriever.doc_metadata
           /\ retriever'.bm25 = retriever.bm25
           /\ retriever'.semantic_weight = retriever.semantic_weight
           /\ retriever'.keyword_weight = retriever.keyword_weight
           /\ retriever'.rrf_k = retriever.rrf_k]_vars

\* C17 witness: a keyword query has run on an instance built from an empty
\* store, and the instance still has no documents and no BM25 index.
QueriedInstanceStillWithoutIndex ==
    /\ retriever.constructed
    /\ lastCall.op = "retrieve"
    /\ lastCall.method = "keyword"
    /\ lastCall.n = 2
    /\ retriever.bm25 = None
    /\ retriever.doc_ids = <<>>

-----------------------------------------------------------------------------
(* Concurrency, checked under SpecConcurrent.                              *)

\* C18: under every interleaving of the statements of concurrent retrieve
\* calls on one instance, a call that has returned has returned exactly
\* what the same call returns when it runs alone.
ConcurrentCallsReturnSequentialResult ==
    \A t \in Threads :
        threads[t].pc = "done" =>
            threads[t].returned =
                retrieve(retriever, threads[t].n, threads[t].method,
                         threads[t].answer, threads[t].scores)

\* C18 witness: two calls with different queries overlapped in time, and
\* both have returned a result.
OverlappingCallsBothReturned ==
    \E t, u \in Threads :
        /\ t # u
        /\ threads[t].pc = "done" /\ threads[u].pc = "done"
        /\ threads[t].overlapped /\ threads[u].overlapped
        /\ threads[t].method # threads[u].method
        /\ threads[t].returned # <<>> /\ threads[u].returned # <<>>

-----------------------------------------------------------------------------
(* The formatted context and the hydrated results, checked under           *)
(* SpecRetriever.                                                          *)

(* Number of places in string s where string sub starts.                   *)
OccurrencesOf(sub, s) ==
    Cardinality({i \in 1..(Len(s) - Len(sub) + 1) : SubSeq(s, i, i + Len(sub) - 1) = sub})

TitledBlock(i, result) ==
    "[Source " \o ToString(i) \o ": " \o result.act_name \o ", Section "
        \o result.section_number \o " - " \o result.section_title \o "]"
        \o "\n" \o result.content

UntitledBlock(i, result) ==
    "[Source " \o ToString(i) \o ": " \o result.act_name \o ", Section "
        \o result.section_number \o "]" \o "\n" \o result.content

\* C19 as stated: format_context(results) is the blocks
\* '[Source i: <act_name>, Section <section_number> - <section_title>]',
\* newline, content, one per result in the given order and numbered from 1,
\* joined by the delimiter; the empty list gives the empty string.
ContextBlocksAlwaysTitled ==
    (lastCall.op = "format_context" /\ lastCall.include_metadata) =>
        lastResult.context =
            JoinWith(ContextDelimiter,
                     [i \in 1..Len(lastCall.results) |-> TitledBlock(i, lastCall.results[i])])

\* C19 as amended: the header of block i is
\* '[Source i: <act_name>, Section <section_number>]', with
\* ' - <section_title>' before the closing bracket only when the section
\* title is not empty; the blocks follow the order of the results, are
\* numbered from 1 and are joined by the delimiter, as many blocks as
\* results, and the empty list gives the empty string.
ContextBlocksTitledWhenTitleKnown ==
    (lastCall.op = "format_context" /\ lastCall.include_metadata) =>
        LET results == lastCall.results
            blocks == [i \in 1..Len(results) |->
                          IF results[i].section_title = ""
                          THEN UntitledBlock(i, results[i])
                          ELSE TitledBlock(i, results[i])]
        IN  /\ lastResult.context = JoinWith(ContextDelimiter, blocks)
            /\ results = <<>> => lastResult.context = ""
            /\ results # <<>> =>
                   /\ OccurrencesOf(ContextDelimiter, lastResult.context) = Len(results) - 1
                   /\ OccurrencesOf("[Source ", lastResult.context) = Len(results)

\* C19 witness: a context of three blocks, the first for a result with a
\* section title and the second for one without.
ContextOfTitledAndUntitledResults ==
    /\ lastCall.op = "format_context"
    /\ lastCall.include_metadata
    /\ Len(lastCall.results) = 3
    /\ lastCall.results[1].section_title # ""
    /\ lastCall.results[2].section_title = ""
    /\ lastResult.context # ""

(* The score a method ranks id by, given the two lists of the call: the   *)
(* similarity of its hit, its BM25 score, or the sum of its fusion terms.  *)
RankingScore(r, method, semantic_results, keyword_results, id) ==
    LET r1 == RankIn(semantic_results, id)
        r2 == RankIn(keyword_results, id)
    IN  IF method = "semantic" THEN semantic_results[r1][2]
        ELSE IF method = "keyword" THEN keyword_results[r2][2]
        ELSE RatAdd(RrfTerm(r.semantic_weight, r.rrf_k, r1),
                    RrfTerm(r.keyword_weight, r.rrf_k, r2))

\* C20: every result of retrieve(query, n, method) carries that method, a
\* chunk id of the loaded corpus, the content and the citation fields of the
\* record stored at that id's index (a field the record lacks is '' or 0),
\* and the score the id was ranked by.
ResultsHydratedFromCorpusRecord ==
    lastCall.op = "retrieve" =>
      LET semantic_results == SemanticListOf(retriever, lastCall)
          keyword_results == KeywordListOf(retriever, lastCall)
      IN
        \A i \in 1..Len(lastResult.results) :
            LET res == lastResult.results[i]
            IN  /\ res.retrieval_method = lastCall.method
                /\ InSnapshot(retriever, res.chunk_id)
                /\ \E idx \in 1..Len(retriever.doc_ids) :
                      LET record == retriever.doc_metadata[idx]
                      IN  /\ retriever.doc_ids[idx] = res.chunk_id
                          /\ res.content = retriever.documents[idx]
                          /\ res.act_name =
                                 IF "act_name" \in DOMAIN record THEN record.act_name ELSE ""
                          /\ res.act_number =
                                 IF "act_number" \in DOMAIN record THEN record.act_number ELSE 0
                          /\ res.section_number =
                                 IF "section_number" \in DOMAIN record
                                 THEN record.section_number ELSE ""
                          /\ res.section_title =
                                 IF "section_title" \in DOMAIN record
                                 THEN record.section_title ELSE ""
                /\ res.score = RankingScore(retriever, lastCall.method, semantic_results,
                                            keyword_results, res.chunk_id)

\* C20 witness: a hybrid call that returned two results, one of a record
\* with all citation fields and one of a record that has only an act name.
HybridReturnedFullAndSparseRecords ==
    /\ lastCall.op = "retrieve"
    /\ lastCall.method = "hybrid"
    /\ Len(lastResult.results) = 2
    /\ \E i, j \in 1..2 :
          /\ lastResult.results[i].section_title # ""
          /\ lastResult.results[j].section_number = ""
          /\ lastResult.results[j].act_name # ""

(* The pieces of the sections k.. of t in document order, each with its    *)
(* section, its 1-based index in the section and the section's piece count.*)
RECURSIVE PiecesFrom(_, _, _, _)
PiecesFrom(t, sections, k, maxT) ==
    IF k > Len(sections) THEN <<>>
    ELSE LET section_chunks == split_large_section(SectionText(t, sections[k]), maxT)
         IN  [i \in 1..Len(section_chunks) |->
                 [text |-> section_chunks[i], section |-> sections[k], i |-> i,
                  of |-> Len(section_chunks)]]
             \o PiecesFrom(t, sections, k + 1, maxT)

(* pieces[from..to] joined with a blank line, after the text head.         *)
RECURSIVE JoinedOnto(_, _, _, _)
JoinedOnto(head, pieces, from, to) ==
    IF from > to THEN head
    ELSE JoinedOnto(head \o ParagraphSeparator \o pieces[from].text, pieces, from + 1, to)

(* The output chunks are the preamble chunk, if any, and one entry per     *)
(* piece of starts, each followed by the pieces up to the next start.      *)
EntriesAreStartsWithFollowers(run, pre, pieces, starts) ==
    LET nPre == Len(pre)
        NextStart(j) == SetMin({s \in starts : s > j} \cup {Len(pieces) + 1})
    IN  /\ Len(run) = nPre + Cardinality(starts)
        /\ nPre = 1 =>
              /\ run[1].content = JoinedOnto(pre[1].content, pieces, 1, NextStart(0) - 1)
              /\ run[1].chunk_id = pre[1].chunk_id
              /\ run[1].part = pre[1].part
              /\ run[1].section_number = pre[1].section_number
              /\ run[1].section_title = pre[1].section_title
              /\ run[1].start_position = pre[1].start_position
        /\ \A j \in starts :
              LET e == run[nPre + Cardinality({s \in starts : s <= j})]
                  base_id == BaseId(pieces[j].section, pieces[j].of, pieces[j].i)
              IN  /\ e.content = JoinedOnto(pieces[j].text, pieces, j + 1, NextStart(j) - 1)
                  /\ e.chunk_id \in {base_id}
                        \cup {base_id \o "_dup" \o ToString(d) : d \in 1..Len(pieces)}
                  /\ e.part = find_current_part(text, pieces[j].section.start)
                  /\ e.section_number = Some(pieces[j].section.section_number)
                  /\ e.section_title = Some(pieces[j].section.title)
                  /\ e.start_position = pieces[j].section.start
        /\ \A i \in 1..Len(run) : run[i].token_count = count_tokens(run[i].content)

(* The index of the list the latest chunk_document call returned; every  *)
(* call's list is the latest one in the state that follows the call.       *)
LatestRun == IF runs = <<>> THEN {} ELSE {Len(runs)}

\* C21 as stated: every piece (sub-chunk of a split section or whole section)
\* with fewer than min_tokens tokens is appended, after a blank line, onto the
\* immediately preceding emitted chunk and never becomes its own entry; the
\* predecessor keeps its chunk_id, part, section_number, section_title and
\* start_position, and token_count = count_tokens(content) for every chunk.
SmallPiecesNeverOwnEntries ==
    \A r \in LatestRun :
        LET sections == find_sections(text)
        IN  sections # <<>> =>
              LET pieces == PiecesFrom(text, sections, 1, max_tokens)
              IN  EntriesAreStartsWithFollowers(
                      runs[r], PreambleChunks(text, sections, min_tokens), pieces,
                      {j \in 1..Len(pieces) : count_tokens(pieces[j].text) >= min_tokens})

\* C21 as amended: a piece with fewer than min_tokens tokens is appended,
\* after a blank line, onto the immediately preceding emitted chunk when a
\* chunk has been emitted before it; the first piece of a document without a
\* preamble chunk becomes its own entry whatever its token count.  The
\* predecessor keeps its chunk_id, part, section_number, section_title and
\* start_position, and token_count = count_tokens(content) for every chunk.
SmallPiecesMergedOntoPredecessorIfAny ==
    \A r \in LatestRun :
        LET sections == find_sections(text)
        IN  sections # <<>> =>
              LET pieces == PiecesFrom(text, sections, 1, max_tokens)
                  pre == PreambleChunks(text, sections, min_tokens)
              IN  EntriesAreStartsWithFollowers(
                      runs[r], pre, pieces,
                      {j \in 1..Len(pieces) :
                          \/ count_tokens(pieces[j].text) >= min_tokens
                          \/ j = 1 /\ pre = <<>>})

\* C21 witness: a call returned two chunks from three pieces: the first
\* piece is small and has no predecessor, so it is an entry of its own, the
\* second is large enough, and the third is small and was merged onto it.
SmallFirstPieceKeptSmallLaterPieceMerged ==
    /\ runs # <<>>
    /\ get_tokenizer # None
    /\ LET sections == find_sections(text)
       IN  /\ sections # <<>>
           /\ LET pieces == PiecesFrom(text, sections, 1, max_tokens)
              IN  /\ Len(pieces) = 3
                  /\ Len(runs[1]) = 2
                  /\ count_tokens(pieces[1].text) < min_tokens
                  /\ count_tokens(pieces[2].text) >= min_tokens
                  /\ count_tokens(pieces[3].text) < min_tokens
                  /\ runs[1][2].content =
                         pieces[2].text \o ParagraphSeparator \o pieces[3].text

(* The pieces that chunk_document emits as entries of their own.           *)
OwnEntryPieces(pieces, pre, minT) ==
    {j \in 1..Len(pieces) : count_tokens(pieces[j].text) >= minT \/ (j = 1 /\ pre = <<>>)}

\* C22: the id of an entry is 'act_<n>_s<section>', followed by '_<i>' with
\* i the 1-based index of the piece when its section was split into several
\* pieces, followed by '_dup<c>' when c > 0 earlier entries of the same call
\* have the same id before the _dup suffix.
ChunkIdsAreBaseIndexAndDupCounter ==
    \A r \in LatestRun :
        LET sections == find_sections(text)
        IN  sections # <<>> =>
              LET pieces == PiecesFrom(text, sections, 1, max_tokens)
                  pre == PreambleChunks(text, sections, min_tokens)
                  starts == OwnEntryPieces(pieces, pre, min_tokens)
                  IdOf(j) ==
                      "act_" \o ToString(act_number) \o "_s"
                      \o pieces[j].section.section_number
                      \o (IF pieces[j].of > 1 THEN "_" \o ToString(pieces[j].i) ELSE "")
              IN  /\ Len(runs[r]) = Len(pre) + Cardinality(starts)
                  /\ \A j \in starts :
                        LET c == Cardinality({s \in starts : s < j /\ IdOf(s) = IdOf(j)})
                        IN  runs[r][Len(pre) + Cardinality({s \in starts : s <= j})].chunk_id
                            = IF c = 0 THEN IdOf(j) ELSE IdOf(j) \o "_dup" \o ToString(c)

\* C22 witness: a call returned three entries of three sections with the
\* same number, with the ids base, base_dup1 and base_dup2.
ThirdRepeatGotDup2 ==
    /\ runs # <<>>
    /\ Len(runs[1]) = 3
    /\ runs[1][2].chunk_id = runs[1][1].chunk_id \o "_dup1"
    /\ runs[1][3].chunk_id = runs[1][1].chunk_id \o "_dup2"

-----------------------------------------------------------------------------
(* The tokenizer of the lexical index.  Here a text is spelled out letter  *)
(* by letter; a token is a sequence of characters.                         *)
(* The letters of the model alphabet: <<upper case, lower case>>.          *)
CaseTable ==
    { <<"S", "s">>, <<"E", "e">>, <<"C", "c">>, <<"T", "t">>, <<"I", "i">>,
      <<"O", "o">>, <<"N", "n">>, <<"A", "a">>, <<"X", "x">> }

(* str.lower()                                                             *)
Lower(t) ==
    [i \in 1..Len(t) |->
        IF \E p \in CaseTable : p[1] = t[i]
        THEN (CHOOSE p \in CaseTable : p[1] = t[i])[2]
        ELSE t[i]]

(* The classes [a-z] and \w of the two patterns.                           *)
IsAsciiLower(c) == \E p \in CaseTable : p[2] = c
IsTokenChar(c) == IsDigit(c) \/ c = "_" \/ \E p \in CaseTable : c \in {p[1], p[2]}

SectionWord == <<"s", "e", "c", "t", "i", "o", "n">>

(* The pattern of the section references matched at offset i: the word,   *)
(* white space, then the group of digits and lowercase letters.            *)
SectionRefAt(t, i) ==
    IF i + Len(SectionWord) > Len(t) \/ Slice(t, i, i + Len(SectionWord)) # SectionWord
    THEN NoMatch
    ELSE LET s == SkipSpaces(t, i + Len(SectionWord))
             d == SkipDigits(t, s)
             e == SetMin({j \in d..Len(t) : j = Len(t) \/ ~IsAsciiLower(CharAt(t, j))})
         IN  IF s > i + Len(SectionWord) /\ d > s
             THEN [matched |-> TRUE, start |-> i, end |-> e, group |-> Slice(t, s, e)]
             ELSE NoMatch

(* re.sub(pattern, r"section_\1", t), from offset pos on.                  *)
RECURSIVE FuseSectionRefs(_, _)
FuseSectionRefs(t, pos) ==
    LET hits == {i \in pos..(Len(t) - 1) : SectionRefAt(t, i).matched}
    IN  IF hits = {} THEN Slice(t, pos, Len(t))
        ELSE LET m == SectionRefAt(t, SetMin(hits))
             IN  Slice(t, pos, m.start) \o SectionWord \o <<"_">> \o m.group
                 \o FuseSectionRefs(t, m.end)

(* re.findall(r"\b\w+\b", t), from offset pos on.                          *)
RECURSIVE WordRuns(_, _)
WordRuns(t, pos) ==
    LET starts == {i \in pos..(Len(t) - 1) : IsTokenChar(CharAt(t, i))}
    IN  IF starts = {} THEN <<>>
        ELSE LET i == SetMin(starts)
                 e == SetMin({j \in i..Len(t) :
                                 j = Len(t) \/ ~IsTokenChar(CharAt(t, j))})
             IN  <<Slice(t, i, e)>> \o WordRuns(t, e)

tokenize(t) ==
    IF t = <<>> THEN <<>>
    ELSE WordRuns(FuseSectionRefs(Lower(t), 0), 0)

(* _initialize: a document stored as None is indexed as "".                *)
tokenized_doc(doc) == tokenize(IF doc # None THEN doc[1] ELSE <<>>)

(* Variant: the query is split without fusing the section references.     *)
tokenized_query_unfused(query) == WordRuns(Lower(query), 0)

(* _keyword_search                                                         *)
tokenized_query(query) == tokenize(query)

(* Texts given to the tokenizer: up to MaxWords pieces.                    *)
MaxWords == 3
TokenizerTexts ==
    LET Words ==
            << <<"S", "e", "c", "t", "i", "o", "n">>,
               <<"s", "e", "c", "t", "i", "o", "n", " ">>,
               <<"S", "E", "C", "T", "I", "O", "N", "\n">>,
               <<" ">>,
               <<"1", "0">>,
               <<"2", "a">>,
               <<"A">>,
               <<"x">>,
               <<",">>,
               <<"_">> >>
    IN  {Concat([i \in DOMAIN pick |-> Words[pick[i]]]) :
            pick \in UNION {[1..n -> 1..Len(Words)] : n \in 0..MaxWords}}

InitTokenize ==
    /\ IdleChunker
    /\ retriever = [constructed |-> FALSE]
    /\ IdleThreads
    /\ \E t \in TokenizerTexts : lastCall = [op |-> "tokenize", text |-> t]
    /\ lastResult = [op |-> "tokenize", document |-> None, query |-> None]

(* The text is a corpus document: _initialize tokenizes it for the index.  *)
TokenizeDocument ==
    /\ lastCall.op = "tokenize"
    /\ lastResult.document = None
    /\ lastResult' = [lastResult EXCEPT
                         !.document = Some(tokenized_doc(Some(lastCall.text)))]
    /\ UNCHANGED <<chunkerVars, retriever, lastCall, concurrentVars>>

(* The text is a query: _keyword_search tokenizes it.                      *)
TokenizeQuery ==
    /\ lastCall.op = "tokenize"
    /\ lastResult.query = None
    /\ lastResult' = [lastResult EXCEPT !.query = Some(tokenized_query(lastCall.text))]
    /\ UNCHANGED <<chunkerVars, retriever, lastCall, concurrentVars>>

NextTokenize == TokenizeDocument \/ TokenizeQuery

SpecTokenize == InitTokenize /\ [][NextTokenize]_vars

(* The token starts with the characters of prefix.                         *)
HasPrefix(token, prefix) ==
    Len(token) >= Len(prefix) /\ SubSeq(token, 1, Len(prefix)) = prefix

\* C24: a text tokenized as a corpus document and as a query gives the same
\* token sequence; every token is a non-empty run of lowercase letters,
\* digits and underscores; and where the lowercased text has the word
\* 'section' (not inside a longer word), white space and a number (digits,
\* then letters), one token starts with 'section_' and that number, instead
\* of the token 'section' followed by a token of the number.
IndexAndQueryTokensAreEqualAndFused ==
    (lastResult.document # None /\ lastResult.query # None) =>
        LET tokens == lastResult.query[1]
            lowered == Lower(lastCall.text)
        IN  /\ lastResult.document[1] = tokens
            /\ \A k \in 1..Len(tokens) :
                  /\ tokens[k] # <<>>
                  /\ \A c \in 1..Len(tokens[k]) :
                        IsDigit(tokens[k][c]) \/ IsAsciiLower(tokens[k][c])
                        \/ tokens[k][c] = "_"
            /\ \A i \in 0..(Len(lowered) - Len(SectionWord)) :
                  LET s == SkipSpaces(lowered, i + Len(SectionWord))
                      d == SkipDigits(lowered, s)
                      e == SetMin({j \in d..Len(lowered) :
                                      j = Len(lowered) \/ ~IsAsciiLower(CharAt(lowered, j))})
                  IN  (/\ Slice(lowered, i, i + Len(SectionWord)) = SectionWord
                       /\ (i = 0 \/ ~IsTokenChar(CharAt(lowered, i - 1)))
                       /\ s > i + Len(SectionWord)
                       /\ s < Len(lowered)
                       /\ IsDigit(CharAt(lowered, s)))
                      => /\ \E k \in 1..Len(tokens) :
                               HasPrefix(tokens[k],
                                         SectionWord \o <<"_">> \o Slice(lowered, s, e))
                         /\ ~\E k \in 1..(Len(tokens) - 1) :
                               /\ tokens[k] = SectionWord
                               /\ tokens[k + 1] = Slice(lowered, s, e)

\* C24 witness: the text 'Section 10' has been tokenized both ways and gave
\* the single token 'section_10'.
Section10IsOneToken ==
    /\ lastCall.op = "tokenize"
    /\ lastCall.text = <<"S", "e", "c", "t", "i", "o", "n", " ", "1", "0">>
    /\ lastResult.document = Some(<< <<"s", "e", "c", "t", "i", "o", "n", "_", "1", "0">> >>)
    /\ lastResult.query = lastResult.document

\* C25: _keyword_search(query, n) returns the first n entries of the list of
\* all documents with a score above zero in descending order of score
\* (documents with equal scores in corpus order), for every score vector and
\* every n >= 0: cutting to n before the zero scores are dropped loses
\* nothing.
KeywordSearchIsPrefixOfPositiveRanking ==
    (lastCall.op = "keyword_search" /\ retriever.bm25 # None) =>
        LET scores == lastCall.scores
            positive == {i \in 1..Len(scores) : RatLess(RatInt(0), scores[i])}
            Before(i, j) ==
                RatLess(scores[j], scores[i]) \/ (scores[i] = scores[j] /\ i < j)
            Place(i) == 1 + Cardinality({j \in positive : Before(j, i)})
            hits == lastResult.hits
        IN  /\ Len(hits) = IF lastCall.n < Cardinality(positive)
                           THEN lastCall.n ELSE Cardinality(positive)
            /\ \A i \in positive :
                  Place(i) <= lastCall.n =>
                      hits[Place(i)] = <<retriever.doc_ids[i], scores[i]>>

\* C25 witness: a call with n = 2 on scores with a zero, and two positive
\* scores of which the larger belongs to the later document, returned both
\* positive documents.
KeywordSearchCutBeforeFilter ==
    /\ lastCall.op = "keyword_search"
    /\ retriever.bm25 # None
    /\ lastCall.n = 2
    /\ lastCall.scores = <<RatInt(0), RatInt(1), RatInt(2)>>
    /\ Len(lastResult.hits) = 2

\* C26: when the semantic sub-search gives an empty list, keyword_weight > 0
\* and rrf_k >= 0, retrieve(query, n, "hybrid") returns the same chunks in
\* the same order as retrieve(query, n, "keyword") on the same BM25 scores;
\* the i-th result differs only in its score, keyword_weight/(rrf_k + i)
\* instead of the BM25 score, and in its retrieval_method.
HybridWithoutSemanticHitsFollowsKeywordOrder ==
    (/\ lastCall.op = "retrieve"
     /\ lastCall.method = "hybrid"
     /\ (lastCall.answer.raised \/ lastCall.answer.hits = <<>>)
     /\ RatLess(RatInt(0), retriever.keyword_weight)
     /\ retriever.rrf_k >= 0) =>
        LET hybrid == lastResult.results
            keyword == retrieve(retriever, lastCall.n, "keyword", NotAsked, lastCall.scores)
        IN  /\ Len(hybrid) = Len(keyword)
            /\ \A i \in 1..Len(hybrid) :
                  /\ [hybrid[i] EXCEPT !.score = keyword[i].score,
                                       !.retrieval_method = "keyword"] = keyword[i]
                  /\ hybrid[i].retrieval_method = "hybrid"
                  /\ hybrid[i].score =
                         RatOver(retriever.keyword_weight, retriever.rrf_k + i)
                  /\ keyword[i].score =
                         lastCall.scores[IndexOf(retriever.doc_ids, keyword[i].chunk_id)]

\* C26 witness: a hybrid call whose vector search failed returned two
\* results ranked by the keyword list alone, the first of them the later
\* document of the corpus.
HybridRankedTwoByKeywordListAlone ==
    /\ lastCall.op = "retrieve"
    /\ lastCall.method = "hybrid"
    /\ lastCall.answer.raised
    /\ RatLess(RatInt(0), retriever.keyword_weight)
    /\ retriever.rrf_k >= 0
    /\ Len(lastResult.results) = 2
    /\ lastResult.results[1].chunk_id = "c3"
    /\ lastResult.results[2].chunk_id = "c1"

\* C27: results of retrieve with equal scores are in the order in which
\* their ids were first inserted into the combined-score mapping: an id of
\* the semantic list comes before an id that is only in the keyword list,
\* two ids of the semantic list are in the order of their semantic ranks, and
\* two ids that are only in the keyword list are in the order of their
\* keyword ranks.
TiesInFirstInsertionOrder ==
    lastCall.op = "retrieve" =>
        LET semantic_results == SemanticListOf(retriever, lastCall)
            keyword_results == KeywordListOf(retriever, lastCall)
            results == lastResult.results
            Inserted(id) ==
                IF RankIn(semantic_results, id) > 0 THEN RankIn(semantic_results, id)
                ELSE Len(semantic_results) + RankIn(keyword_results, id)
        IN  \A i, j \in 1..Len(results) :
                (i < j /\ results[i].score = results[j].score) =>
                    /\ RankIn(semantic_results, results[i].chunk_id) > 0
                       \/ RankIn(semantic_results, results[j].chunk_id) = 0
                    /\ Inserted(results[i].chunk_id) < Inserted(results[j].chunk_id)

\* C27 witness: with equal weights a hybrid call returned an id that is
\* only in the semantic list, at rank 1, before an id that is only in the
\* keyword list, at rank 1, both with the same fused score.
SemanticOnlyTiePrecedesKeywordOnlyTie ==
    /\ lastCall.op = "retrieve"
    /\ lastCall.method = "hybrid"
    /\ retriever.semantic_weight = retriever.keyword_weight
    /\ Len(lastResult.results) = 2
    /\ lastResult.results[1].score = lastResult.results[2].score
    /\ LET semantic_results == SemanticListOf(retriever, lastCall)
           keyword_results == KeywordListOf(retriever, lastCall)
       IN  /\ RankIn(semantic_results, lastResult.results[1].chunk_id) = 1
           /\ RankIn(keyword_results, lastResult.results[1].chunk_id) = 0
           /\ RankIn(semantic_results, lastResult.results[2].chunk_id) = 0
           /\ RankIn(keyword_results, lastResult.results[2].chunk_id) = 1

(* The stripped texts of the sections k.. joined with blank lines.         *)
RECURSIVE SectionTextsJoined(_, _, _)
SectionTextsJoined(t, sections, k) ==
    IF k = Len(sections) THEN SectionText(t, sections[k])
    ELSE SectionText(t, sections[k]) \o ParagraphSeparator
         \o SectionTextsJoined(t, sections, k + 1)

\* C28: when the tokenizer fails on every call (count_tokens is 0) and
\* min_tokens >= 1, chunk_document on a text with a section header returns
\* exactly one chunk: it has the first section's id, number, title and start,
\* its content is the first section's text followed by every later section's
\* text after a blank line, and no preamble chunk is emitted.
TokenizerFailureYieldsOneMergedChunk ==
    \A r \in LatestRun :
        LET sections == find_sections(text)
        IN  (get_tokenizer = None /\ min_tokens >= 1 /\ sections # <<>>) =>
              /\ Len(runs[r]) = 1
              /\ runs[r][1].chunk_id =
                     "act_" \o ToString(act_number) \o "_s" \o sections[1].section_number
              /\ runs[r][1].section_number = Some(sections[1].section_number)
              /\ runs[r][1].section_title = Some(sections[1].title)
              /\ runs[r][1].start_position = sections[1].start
              /\ runs[r][1].content = SectionTextsJoined(text, sections, 1)
              /\ runs[r][1].token_count = 0

\* C28 witness: with a failing tokenizer a call on a text with text before
\* the first header and two sections returned one chunk.
FailingTokenizerMergedTwoSectionsNoPreamble ==
    /\ runs # <<>>
    /\ get_tokenizer = None
    /\ LET sections == find_sections(text)
       IN  /\ Len(sections) = 2
           /\ Strip(Slice(text, 0, sections[1].start)) # <<>>
    /\ Len(runs[1]) = 1

(* The pieces from the k-th on are found in t from offset pos on, in       *)
(* order, with nothing but white space before, between and after them.     *)
RECURSIVE PiecesCover(_, _, _, _)
PiecesCover(t, pos, pieces, k) ==
    IF k > Len(pieces) THEN SkipSpaces(t, pos) = Len(t)
    ELSE LET piece == Strip(pieces[k])
             from == SkipSpaces(t, pos)
         IN  /\ from + Len(piece) <= Len(t)
             /\ Slice(t, from, from + Len(piece)) = piece
             /\ PiecesCover(t, from + Len(piece), pieces, k + 1)

\* C29: for every section text and max_tokens the pieces returned by
\* split_large_section are non-empty and, concatenated in order, give the
\* section text up to white space at the piece boundaries: nothing is
\* dropped, duplicated or reordered, in the subsection path and in the
\* paragraph path.
SplitIsLosslessWithNonEmptyPieces ==
    splitOut # None =>
        /\ \A k \in 1..Len(splitOut[1]) : splitOut[1][k] # <<>>
        /\ PiecesCover(splitIn[1], 0, splitOut[1], 1)

-----------------------------------------------------------------------------
(* clean_legal_text (src/src/ingestion/text_extractor.py).  The symbol "H" *)
(* stands for a whole stamp of the removal list (an AGC header, a page     *)
(* marker, a URL or a reprint marker).                                     *)

(* The characters of t at the 1-based positions of kept, in order.         *)
KeepAt(t, kept) ==
    [k \in 1..Cardinality(kept) |->
        t[CHOOSE i \in kept : Cardinality({j \in kept : j <= i}) = k]]

(* The pattern of the loose page numbers, under re.MULTILINE, matched at   *)
(* offset i: a line start, white space, one to three digits, white space   *)
(* and a line end; white space includes newlines.                          *)
PageNumberAt(t, i) ==
    IF ~AtLineStart(t, i) THEN NoMatch
    ELSE LET s == SkipSpaces(t, i)
             d == SkipDigits(t, s)
             e == SkipSpaces(t, d)
             newlines == {j \in d..(e - 1) : CharAt(t, j) = "\n"}
         IN  IF d - s < 1 \/ d - s > 3 THEN NoMatch
             ELSE IF e = Len(t) THEN [matched |-> TRUE, start |-> i, end |-> e]
             ELSE IF newlines # {} THEN [matched |-> TRUE, start |-> i, end |-> SetMax(newlines)]
             ELSE NoMatch

RECURSIVE RemovePageNumbers(_, _)
RemovePageNumbers(t, pos) ==
    LET hits == {i \in pos..(Len(t) - 1) : PageNumberAt(t, i).matched}
    IN  IF hits = {} THEN Slice(t, pos, Len(t))
        ELSE LET m == PageNumberAt(t, SetMin(hits))
             IN  Slice(t, pos, m.start) \o RemovePageNumbers(t, m.end)

(* "\n".join(line for line in t.split("\n") if line.strip())                *)
RECURSIVE NonBlankLines(_)
NonBlankLines(t) ==
    LET e == EndOfLine(t, 0)
        line == Slice(t, 0, e)
        rest == IF e = Len(t) THEN <<>> ELSE NonBlankLines(Slice(t, e + 1, Len(t)))
    IN  IF Strip(line) = <<>> THEN rest
        ELSE IF rest = <<>> THEN line
        ELSE line \o <<"\n">> \o rest

(* The substitutions of clean_legal_text up to the line filter.            *)
NormalizedText(t) ==
    LET unstamped == KeepAt(t, {i \in 1..Len(t) : t[i] # "H"})
        unpaged == RemovePageNumbers(unstamped, 0)
        newlines == KeepAt(unpaged,
                           {i \in 1..Len(unpaged) :
                               ~(/\ i > 2
                                 /\ unpaged[i] = "\n"
                                 /\ unpaged[i - 1] = "\n"
                                 /\ unpaged[i - 2] = "\n")})
    IN  KeepAt(newlines,
               {i \in 1..Len(newlines) :
                   ~(i > 1 /\ newlines[i] = " " /\ newlines[i - 1] = " ")})

(* Variant: the lines that are only white space are kept.                 *)
clean_legal_text_keeping_blank_lines(t) ==
    IF t = <<>> THEN <<>> ELSE Strip(NormalizedText(t))

clean_legal_text(t) ==
    IF t = <<>> THEN <<>> ELSE Strip(NonBlankLines(NormalizedText(t)))

(* Raw extracted texts: up to MaxFragments lines, among them blank lines,  *)
(* a line of spaces, a page number and a stamp.                            *)
RawTexts ==
    LET Lines ==
            << <<"S", " ", "1", " ", "a", "\n">>,
               <<"a", " ", " ", "b", "\n">>,
               <<"\n">>,
               <<" ", "\n">>,
               <<"1", "2", "\n">>,
               <<"H", "\n">>,
               <<"(", "1", ")", " ", "a", "\n">> >>
    IN  {Concat([i \in DOMAIN pick |-> Lines[pick[i]]]) :
            pick \in UNION {[1..n -> 1..Len(Lines)] : n \in 0..MaxFragments}}

InitClean ==
    /\ text = <<>>
    /\ act_number = 0
    /\ max_tokens \in {SmallMaxTokens, DefaultMaxTokens}
    /\ min_tokens = DefaultMinTokens
    /\ encodingLoads = TRUE
    /\ TOKENIZER = None
    /\ seen_ids = <<>>
    /\ runs = <<>>
    /\ splitIn = None
    /\ splitOut = None
    /\ retriever = [constructed |-> FALSE]
    /\ IdleThreads
    /\ \E raw \in RawTexts : lastCall = [op |-> "clean_legal_text", text |-> raw]
    /\ lastResult = NoCall

(* One call clean_legal_text(raw); its result is the document's            *)
(* cleaned_text.                                                           *)
CleanLegalText ==
    /\ lastCall.op = "clean_legal_text"
    /\ lastResult = NoCall
    /\ text' = clean_legal_text(lastCall.text)
    /\ lastResult' = [op |-> "clean_legal_text", cleaned |-> text']
    /\ UNCHANGED <<act_number, max_tokens, min_tokens, encodingLoads, TOKENIZER,
                   seen_ids, runs, splitIn, splitOut, retriever, lastCall,
                   concurrentVars>>

(* split_large_section on a section of the cleaned text.                   *)
SplitCleanedSection ==
    /\ lastResult.op = "clean_legal_text"
    /\ SplitLargeSection

NextClean == CleanLegalText \/ SplitCleanedSection

SpecClean == InitClean /\ [][NextClean]_vars

====
